---------------------------- MODULE Spec2Model ----------------------------
(***************************************************************************)
(* The anchor feature of ckeditor5-anchor: AnchorCommand (the attribute    *)
(* apply command), UnanchorCommand (the attribute removal command) and     *)
(* findAnchorRange (the range resolver), over a document of blocks that    *)
(* hold inline items.                                                      *)
(*                                                                         *)
(* A document is a sequence of blocks, a block a sequence of items.  An    *)
(* item is a piece of text or an inline object; it carries the primary     *)
(* attribute anchorHref (Undefined when absent), the set of manual         *)
(* decorator attributes set on it, and the set of its other formatting     *)
(* attributes.  A position is a block and an offset between its items, a   *)
(* range a block and two offsets, the selection a sequence of disjoint     *)
(* ranges in document order (a single range with equal offsets when        *)
(* collapsed) with the selection's own attributes.                         *)
(***************************************************************************)
EXTENDS Integers, Sequences, FiniteSets, TLC

VARIABLES
    doc,              \* model.document: the blocks and their items
    selection,        \* model.document.selection: ranges, attributes, gravity
    anchorCommand,    \* AnchorCommand: value, isEnabled, manualDecorators
    unanchorCommand,  \* UnanchorCommand: isEnabled
    batches,          \* number of top-level model.change() blocks run so far
    pendingChanges,   \* depth of the model.change() blocks that are open
    strayWrites,      \* TRUE once a writer call was made outside a change block
    executed,         \* the command calls made so far, oldest first, each with
                      \* the document and the selection it started from
    balloon,          \* ContextualBalloon: its stacks and the one that is shown
    anchorUI,         \* AnchorUI: the 'update' listener and what it remembers
    handled,          \* the last event AnchorUI handled, with the state before it
    nestedChanges,    \* the callers of model.change() that called it while a
                      \* change block was open
    editingView       \* the editing view: the highlighted <a> elements

vars == <<doc, selection, anchorCommand, unanchorCommand, batches,
          pendingChanges, strayWrites, executed, balloon, anchorUI, handled,
          nestedChanges, editingView>>

-----------------------------------------------------------------------------
(* Bounds of the exploration. *)

\* Command calls per behaviour.
MaxCalls == 1

\* Ranges in a non-collapsed selection.
MaxRanges == 2

-----------------------------------------------------------------------------
(* Values. *)

\* What getAttribute() returns for an attribute that is not set.
Undefined == "undefined"

\* The href arguments of AnchorCommand.execute.
Hrefs == {"", "a", "b"}

\* The manual decorators of the configuration, by model attribute name.
ManualDecorators == {"anchorIsExternal", "anchorIsDownloadable"}

\* Formatting attributes other than the anchor family.
Formats == {"bold"}

\* The manualDecoratorIds arguments: a mapping of some decorator names to
\* booleans; a name may be missing from the mapping.
DecoratorMappings == UNION {[S -> BOOLEAN] : S \in SUBSET ManualDecorators}

NoAttributes == [href |-> Undefined, decs |-> {}, fmt |-> {}]

Text(data, href, decs, fmt) ==
    [kind |-> "text", data |-> data, href |-> href, decs |-> decs, fmt |-> fmt]

InlineObject(data, href, decs) ==
    [kind |-> "object", data |-> data, href |-> href, decs |-> decs, fmt |-> {}]

ItemAttributes(item) == [href |-> item.href, decs |-> item.decs, fmt |-> item.fmt]

-----------------------------------------------------------------------------
(* Schema. *)

\* schema.checkAttribute( item, 'anchorHref' ): the attribute is allowed on
\* text only.
CheckAttribute(item) == item.kind = "text"

\* The items of a range, as offsets into the block: s+1 .. e.
RangeItems(r) == (r.s + 1) .. r.e

\* schema.checkAttributeInSelection( selection, 'anchorHref' ).
CheckAttributeInSelection(d, ranges) ==
    IF Len(ranges) = 1 /\ ranges[1].s = ranges[1].e
    THEN TRUE
    ELSE \E i \in 1..Len(ranges) :
            \E k \in RangeItems(ranges[i]) : CheckAttribute(d[ranges[i].blk][k])

\* The valid sub-ranges of one range from offset `from` on, `start` being the
\* start of the sub-range that is being collected.
RECURSIVE ValidRangesForRange(_, _, _, _)
ValidRangesForRange(d, r, start, from) ==
    IF from >= r.e
    THEN IF start < r.e THEN <<[blk |-> r.blk, s |-> start, e |-> r.e]>> ELSE <<>>
    ELSE IF CheckAttribute(d[r.blk][from + 1])
         THEN ValidRangesForRange(d, r, start, from + 1)
         ELSE (IF start < from
               THEN <<[blk |-> r.blk, s |-> start, e |-> from]>>
               ELSE <<>>)
              \o ValidRangesForRange(d, r, from + 1, from + 1)

\* schema.getValidRanges( ranges, 'anchorHref' ).
RECURSIVE GetValidRanges(_, _)
GetValidRanges(d, ranges) ==
    IF ranges = <<>> THEN <<>>
    ELSE ValidRangesForRange(d, Head(ranges), Head(ranges).s, Head(ranges).s)
         \o GetValidRanges(d, Tail(ranges))

-----------------------------------------------------------------------------
(* Selection. *)

IsCollapsed(sel) == Len(sel.ranges) = 1 /\ sel.ranges[1].s = sel.ranges[1].e

FirstPosition(sel) == [blk |-> sel.ranges[1].blk, off |-> sel.ranges[1].s]

\* The attributes the document selection takes from the content: for a collapsed
\* selection those of the text before it, or of the text after it when there is
\* no text before it or the gravity is overridden; for a non-collapsed one those
\* of the first item of its first range when that is text.
SurroundingAttributes(d, ranges, override) ==
    LET r == ranges[1]
        b == d[r.blk]
    IN  IF r.s = r.e
        THEN IF ~override /\ r.s >= 1 /\ b[r.s].kind = "text"
             THEN ItemAttributes(b[r.s])
             ELSE IF r.s < Len(b) /\ b[r.s + 1].kind = "text"
                  THEN ItemAttributes(b[r.s + 1])
                  ELSE NoAttributes
        ELSE IF b[r.s + 1].kind = "text"
             THEN ItemAttributes(b[r.s + 1])
             ELSE NoAttributes

\* selection.hasAttribute( 'anchorHref' )
HasAnchorHref(sel) == sel.attrs.href # Undefined

-----------------------------------------------------------------------------
(* The model and its writer.  A model state is a record                     *)
(* [doc, sel, depth, batches, stray, nested]: the document, the document    *)
(* selection, the depth of the open change blocks, the number of top-level  *)
(* change blocks run so far, whether a writer call was made outside any     *)
(* block, and which callers of the plugin opened a block inside another.    *)

\* model.change( callback ), entering: a block opened while none is open is a
\* new top-level block (a batch, one undo step), one opened inside another
\* block joins it.
ChangeBegin(m) ==
    [m EXCEPT !.depth = @ + 1,
              !.batches = IF m.depth = 0 THEN @ + 1 ELSE @]

\* model.change( callback ) called by the named code of the plugin.
ChangeBeginBy(m, caller) ==
    ChangeBegin([m EXCEPT !.nested = IF m.depth > 0 THEN @ \cup {caller} ELSE @])

\* model.change( callback ), leaving.  When the outermost block is left the
\* document fires 'change' and the selection takes its attributes from the
\* content again, except those a writer removed from it directly.
ChangeEnd(m) ==
    LET around == SurroundingAttributes(m.doc, m.sel.ranges, m.sel.override)
        kept == [href |-> IF "anchorHref" \in m.sel.removed
                          THEN Undefined ELSE around.href,
                 decs |-> around.decs \ m.sel.removed,
                 fmt |-> around.fmt]
    IN  IF m.depth = 1
        THEN [m EXCEPT !.depth = 0, !.sel.attrs = kept]
        ELSE [m EXCEPT !.depth = @ - 1]

\* A writer call: it changes the document, and is a stray write when no change
\* block is open.
Written(m, d) == [m EXCEPT !.doc = d, !.stray = @ \/ (m.depth = 0)]

\* writer.setAttribute( 'anchorHref', href, range )
WriterSetAnchorHref(m, href, r) ==
    Written(m, [m.doc EXCEPT ![r.blk] =
        [k \in 1..Len(@) |->
            IF k \in RangeItems(r) THEN [@[k] EXCEPT !.href = href] ELSE @[k]]])

\* names.forEach( item => writer.setAttribute( item, true, range ) )
WriterSetDecorators(m, names, r) ==
    Written(m, [m.doc EXCEPT ![r.blk] =
        [k \in 1..Len(@) |->
            IF k \in RangeItems(r)
            THEN [@[k] EXCEPT !.decs = @ \cup names] ELSE @[k]]])

\* names.forEach( item => writer.removeAttribute( item, range ) )
WriterRemoveDecorators(m, names, r) ==
    Written(m, [m.doc EXCEPT ![r.blk] =
        [k \in 1..Len(@) |->
            IF k \in RangeItems(r)
            THEN [@[k] EXCEPT !.decs = @ \ names] ELSE @[k]]])

\* writer.removeAttribute( 'anchorHref', range )
WriterRemoveAnchorHref(m, r) ==
    Written(m, [m.doc EXCEPT ![r.blk] =
        [k \in 1..Len(@) |->
            IF k \in RangeItems(r) THEN [@[k] EXCEPT !.href = Undefined] ELSE @[k]]])

\* writer.setSelection( range ): the selection becomes the range and takes all
\* its attributes from the content.
WriterSetSelection(m, r) ==
    [m EXCEPT !.sel = [ranges |-> <<r>>,
                       attrs |-> SurroundingAttributes(m.doc, <<r>>, m.sel.override),
                       override |-> m.sel.override,
                       removed |-> {}],
              !.stray = @ \/ (m.depth = 0)]

-----------------------------------------------------------------------------
(* findAnchorRange( position, value, model ): the maximal run of items     *)
(* around the position whose anchorHref equals the value, inside the       *)
(* position's block.                                                       *)

\* Walk towards the start of the block, sibling by sibling, while the value
\* matches.
RECURSIVE FindBoundBack(_, _, _)
FindBoundBack(block, off, value) ==
    IF off >= 1 /\ block[off].href = value
    THEN FindBoundBack(block, off - 1, value)
    ELSE off

\* Walk towards the end of the block, sibling by sibling, while the value
\* matches.
RECURSIVE FindBoundForward(_, _, _)
FindBoundForward(block, off, value) ==
    IF off < Len(block) /\ block[off + 1].href = value
    THEN FindBoundForward(block, off + 1, value)
    ELSE off

FindAnchorRange(position, value, d) ==
    [blk |-> position.blk,
     s |-> FindBoundBack(d[position.blk], position.off, value),
     e |-> FindBoundForward(d[position.blk], position.off, value)]

-----------------------------------------------------------------------------
(* model.insertContent and the selection attributes fixer that listens to  *)
(* it (AnchorEditing._enableInsertContentSelectionAttributesFixer).        *)

\* A position between two pieces of text with the same attributes is inside one
\* text node: it has no nodeBefore and no nodeAfter.
InTextNode(block, off) ==
    /\ off >= 1
    /\ off < Len(block)
    /\ block[off].kind = "text"
    /\ block[off + 1].kind = "text"
    /\ ItemAttributes(block[off]) = ItemAttributes(block[off + 1])

\* SelectionAttributesFixer that frees the selection of anchorHref only.
SelectionAttributesFixerHrefOnly(m) ==
    LET position == FirstPosition(m.sel)
        block == m.doc[position.blk]
        off == position.off
        hasNodeBefore == off >= 1 /\ ~InTextNode(block, off)
        hasNodeAfter == off < Len(block) /\ ~InTextNode(block, off)
        inner == ChangeBeginBy(m, "SelectionAttributesFixer")
        freed == [inner EXCEPT
                    !.sel.attrs.href = Undefined,
                    !.sel.removed = @ \cup {"anchorHref"},
                    !.stray = @ \/ (inner.depth = 0)]
    IN  IF ~HasAnchorHref(m.sel) THEN m
        ELSE IF ~hasNodeBefore THEN m
        ELSE IF block[off].href = Undefined THEN m
        ELSE IF hasNodeAfter /\ block[off + 1].href # Undefined THEN m
        ELSE ChangeEnd(freed)

\* The 'insertContent' listener: when the collapsed selection sits at the end of
\* an anchor, it frees the selection of every attribute whose name starts with
\* "anchor".
SelectionAttributesFixer(m) ==
    LET position == FirstPosition(m.sel)
        block == m.doc[position.blk]
        off == position.off
        hasNodeBefore == off >= 1 /\ ~InTextNode(block, off)
        hasNodeAfter == off < Len(block) /\ ~InTextNode(block, off)
        family == (IF m.sel.attrs.href # Undefined THEN {"anchorHref"} ELSE {})
                  \cup m.sel.attrs.decs
        inner == ChangeBeginBy(m, "SelectionAttributesFixer")
        freed == [inner EXCEPT
                    !.sel.attrs = [href |-> Undefined, decs |-> {},
                                   fmt |-> m.sel.attrs.fmt],
                    !.sel.removed = @ \cup family,
                    !.stray = @ \/ (inner.depth = 0)]
    IN  IF ~HasAnchorHref(m.sel) THEN m
        ELSE IF ~hasNodeBefore THEN m
        ELSE IF block[off].href = Undefined THEN m
        ELSE IF hasNodeAfter /\ block[off + 1].href # Undefined THEN m
        ELSE ChangeEnd(freed)

\* The default action of model.insertContent( node, position ) with the
\* collapsed selection at the position: the node is inserted in a change block
\* of its own and the selection ends up right after it.
InsertContentDefault(m, node, position) ==
    LET inner == ChangeBegin(m)
        block == m.doc[position.blk]
        inserted == [m.doc EXCEPT ![position.blk] =
                        SubSeq(block, 1, position.off) \o <<node>>
                        \o SubSeq(block, position.off + 1, Len(block))]
        after == [blk |-> position.blk, s |-> position.off + 1,
                  e |-> position.off + 1]
        around == SurroundingAttributes(inserted, <<after>>, m.sel.override)
        moved == [Written(inner, inserted) EXCEPT
                    !.sel.ranges = <<after>>,
                    !.sel.attrs = [href |-> IF "anchorHref" \in m.sel.removed
                                            THEN Undefined ELSE around.href,
                                   decs |-> around.decs \ m.sel.removed,
                                   fmt |-> around.fmt]]
    IN  ChangeEnd(moved)

\* model.insertContent( node, position ): the default action, then the
\* listeners of 'insertContent' of low priority.
InsertContent(m, node, position) ==
    SelectionAttributesFixer(InsertContentDefault(m, node, position))

-----------------------------------------------------------------------------
(* AnchorCommand.execute( href, manualDecoratorIds ) *)

\* The decorators to turn on: the names mapped to a truthy value.
TruthyManualDecorators(manualDecoratorIds) ==
    {name \in DOMAIN manualDecoratorIds : manualDecoratorIds[name]}

\* FalsyManualDecorators that takes a name missing from the mapping for false.
FalsyOrAbsentManualDecorators(manualDecoratorIds) ==
    {name \in ManualDecorators :
        name \notin DOMAIN manualDecoratorIds \/ ~manualDecoratorIds[name]}

\* The decorators to turn off: the names mapped to a falsy value.
FalsyManualDecorators(manualDecoratorIds) ==
    {name \in DOMAIN manualDecoratorIds : ~manualDecoratorIds[name]}

\* The three writer calls both attribute branches make on a range.
SetOnRange(m, href, truthy, falsy, range) ==
    WriterRemoveDecorators(
        WriterSetDecorators(WriterSetAnchorHref(m, href, range), truthy, range),
        falsy, range)

\* UpdateAnchor with the anchor looked up by the new href instead of the
\* selection's current value.
UpdateAnchorByNewValue(m, href, truthy, falsy) ==
    LET anchorRange == FindAnchorRange(FirstPosition(m.sel), href, m.doc)
    IN  WriterSetSelection(SetOnRange(m, href, truthy, falsy, anchorRange),
                           anchorRange)

\* UpdateAnchor on the part of the anchor that lies before the selection.
UpdateAnchorUpToPosition(m, href, truthy, falsy) ==
    LET position == FirstPosition(m.sel)
        found == FindAnchorRange(position, m.sel.attrs.href, m.doc)
        anchorRange == [found EXCEPT !.e = IF found.s < position.off
                                           THEN position.off ELSE found.e]
    IN  WriterSetSelection(SetOnRange(m, href, truthy, falsy, anchorRange),
                           anchorRange)

\* Collapsed selection in text with anchorHref: update the whole anchor, found
\* with the selection's own value, and select it.
UpdateAnchor(m, href, truthy, falsy) ==
    LET anchorRange ==
            FindAnchorRange(FirstPosition(m.sel), m.sel.attrs.href, m.doc)
    IN  WriterSetSelection(SetOnRange(m, href, truthy, falsy, anchorRange),
                           anchorRange)

\* InsertAnchor with a node that takes nothing from the selection's attributes.
InsertAnchorWithoutAmbient(m, href, truthy, falsy) ==
    LET position == FirstPosition(m.sel)
        node == Text(href, href, truthy, {})
    IN  WriterSetSelection(
            InsertContent(m, node, position),
            [blk |-> position.blk, s |-> position.off, e |-> position.off + 1])

\* InsertAnchor that leaves the selection where model.insertContent put it.
InsertAnchorNotSelected(m, href, truthy, falsy) ==
    LET position == FirstPosition(m.sel)
        attributes == [m.sel.attrs EXCEPT !.href = href, !.decs = @ \cup truthy]
        node == Text(href, attributes.href, attributes.decs, attributes.fmt)
    IN  InsertContent(m, node, position)

\* InsertAnchor that inserts the node after the command's change block was
\* left and opens another block to select it.
InsertAnchorOutsideChange(m, href, truthy, falsy) ==
    LET position == FirstPosition(m.sel)
        attributes == [m.sel.attrs EXCEPT !.href = href, !.decs = @ \cup truthy]
        node == Text(href, attributes.href, attributes.decs, attributes.fmt)
    IN  WriterSetSelection(
            ChangeBegin(InsertContent(ChangeEnd(m), node, position)),
            [blk |-> position.blk, s |-> position.off, e |-> position.off + 1])

\* Collapsed selection without anchorHref: insert a text node whose data is the
\* href, with the selection's attributes, and select it.
InsertAnchor(m, href, truthy, falsy) ==
    LET position == FirstPosition(m.sel)
        attributes == [m.sel.attrs EXCEPT !.href = href, !.decs = @ \cup truthy]
        node == Text(href, attributes.href, attributes.decs, attributes.fmt)
    IN  WriterSetSelection(
            InsertContent(m, node, position),
            [blk |-> position.blk, s |-> position.off, e |-> position.off + 1])

\* ApplyToRanges on the selected ranges as they are, the schema not consulted.
ApplyToAllRanges(m, href, truthy, falsy) ==
    LET ranges == m.sel.ranges
        applied[i \in 0..Len(ranges)] ==
            IF i = 0 THEN m
            ELSE SetOnRange(applied[i - 1], href, truthy, falsy, ranges[i])
    IN  applied[Len(ranges)]

\* ApplyToRanges that afterwards selects the first range it wrote to.
ApplyToRangesAndSelect(m, href, truthy, falsy) ==
    LET ranges == GetValidRanges(m.doc, m.sel.ranges)
        applied[i \in 0..Len(ranges)] ==
            IF i = 0 THEN m
            ELSE SetOnRange(applied[i - 1], href, truthy, falsy, ranges[i])
    IN  IF ranges = <<>> THEN m
        ELSE WriterSetSelection(applied[Len(ranges)], ranges[1])

\* Non-collapsed selection: change the attributes on the ranges where
\* anchorHref is allowed; the selection is not touched.
ApplyToRanges(m, href, truthy, falsy) ==
    LET ranges == GetValidRanges(m.doc, m.sel.ranges)
        applied[i \in 0..Len(ranges)] ==
            IF i = 0 THEN m
            ELSE SetOnRange(applied[i - 1], href, truthy, falsy, ranges[i])
    IN  applied[Len(ranges)]

\* ExecuteCallback without the test for an empty href.
ExecuteCallbackInsertingEmpty(m, href, truthy, falsy) ==
    IF IsCollapsed(m.sel)
    THEN IF HasAnchorHref(m.sel) THEN UpdateAnchor(m, href, truthy, falsy)
         ELSE InsertAnchor(m, href, truthy, falsy)
    ELSE ApplyToRanges(m, href, truthy, falsy)

\* The callback of model.change(): the choice of the branch.
ExecuteCallback(m, href, truthy, falsy) ==
    IF IsCollapsed(m.sel)
    THEN IF HasAnchorHref(m.sel) THEN UpdateAnchor(m, href, truthy, falsy)
         ELSE IF href # "" THEN InsertAnchor(m, href, truthy, falsy)
         ELSE m
    ELSE ApplyToRanges(m, href, truthy, falsy)

\* AnchorExecute that returns with its change block open when the callback
\* has nothing to do.
AnchorExecuteLeavingOpen(m, href, manualDecoratorIds) ==
    LET open == ChangeBeginBy(m, "AnchorCommand.execute")
        done == ExecuteCallback(open, href,
                                TruthyManualDecorators(manualDecoratorIds),
                                FalsyManualDecorators(manualDecoratorIds))
    IN  IF done = open THEN open ELSE ChangeEnd(done)

AnchorExecute(m, href, manualDecoratorIds) ==
    ChangeEnd(ExecuteCallback(ChangeBeginBy(m, "AnchorCommand.execute"), href,
                              TruthyManualDecorators(manualDecoratorIds),
                              FalsyManualDecorators(manualDecoratorIds)))

-----------------------------------------------------------------------------
(* UnanchorCommand.execute() *)

\* UnanchorExecute on the ranges where the schema allows anchorHref only.
UnanchorValidRangesOnly(m, manualDecorators) ==
    LET open == ChangeBegin(m)
        rangesToUnanchor ==
            IF IsCollapsed(m.sel)
            THEN <<FindAnchorRange(FirstPosition(m.sel), m.sel.attrs.href, m.doc)>>
            ELSE GetValidRanges(m.doc, m.sel.ranges)
        OnRange(mm, range) ==
            WriterRemoveDecorators(WriterRemoveAnchorHref(mm, range),
                                   manualDecorators, range)
        removed[i \in 0..Len(rangesToUnanchor)] ==
            IF i = 0 THEN open ELSE OnRange(removed[i - 1], rangesToUnanchor[i])
    IN  ChangeEnd(removed[Len(rangesToUnanchor)])

\* UnanchorExecute that removes anchorHref and leaves the manual decorators.
UnanchorKeepingDecorators(m, manualDecorators) ==
    LET open == ChangeBegin(m)
        rangesToUnanchor ==
            IF IsCollapsed(m.sel)
            THEN <<FindAnchorRange(FirstPosition(m.sel), m.sel.attrs.href, m.doc)>>
            ELSE m.sel.ranges
        removed[i \in 0..Len(rangesToUnanchor)] ==
            IF i = 0 THEN open
            ELSE WriterRemoveAnchorHref(removed[i - 1], rangesToUnanchor[i])
    IN  ChangeEnd(removed[Len(rangesToUnanchor)])

UnanchorExecute(m, manualDecorators) ==
    LET open == ChangeBeginBy(m, "UnanchorCommand.execute")
        rangesToUnanchor ==
            IF IsCollapsed(m.sel)
            THEN <<FindAnchorRange(FirstPosition(m.sel), m.sel.attrs.href, m.doc)>>
            ELSE m.sel.ranges
        OnRange(mm, range) ==
            WriterRemoveDecorators(WriterRemoveAnchorHref(mm, range),
                                   manualDecorators, range)
        removed[i \in 0..Len(rangesToUnanchor)] ==
            IF i = 0 THEN open ELSE OnRange(removed[i - 1], rangesToUnanchor[i])
    IN  ChangeEnd(removed[Len(rangesToUnanchor)])

-----------------------------------------------------------------------------
(* refresh() of the two commands, run on every change of the document. *)

\* AnchorCommand._getDecoratorStateFromModel( decoratorName )
GetDecoratorStateFromModel(sel, decoratorName) ==
    IF decoratorName \in sel.attrs.decs THEN "true" ELSE Undefined

\* AnchorRefresh with a value only when every selected item has it.
AnchorRefreshUniform(d, sel) ==
    [value |-> IF \A i \in 1..Len(sel.ranges) : \A k \in RangeItems(sel.ranges[i]) :
                     d[sel.ranges[i].blk][k].href = sel.attrs.href
               THEN sel.attrs.href ELSE Undefined,
     manualDecorators |->
        [name \in ManualDecorators |-> GetDecoratorStateFromModel(sel, name)],
     isEnabled |-> CheckAttributeInSelection(d, sel.ranges)]

AnchorRefresh(d, sel) ==
    [value |-> sel.attrs.href,
     manualDecorators |->
        [name \in ManualDecorators |-> GetDecoratorStateFromModel(sel, name)],
     isEnabled |-> CheckAttributeInSelection(d, sel.ranges)]

UnanchorRefresh(sel) == [isEnabled |-> HasAnchorHref(sel)]

-----------------------------------------------------------------------------
(* The editing view, as AnchorUI reads it.  A piece of text with anchorHref *)
(* is rendered inside an <a> attribute element, adjacent pieces with the    *)
(* same anchorHref inside one element; bold text inside a <strong> element  *)
(* nested in it.                                                            *)

\* The item is rendered inside an anchor element.
InAnchorElement(item) == item.kind = "text" /\ item.href # Undefined

\* Two adjacent items are rendered inside the same anchor element.
SameAnchorElement(i1, i2) ==
    InAnchorElement(i1) /\ InAnchorElement(i2) /\ i1.href = i2.href

\* AnchorUI._getSelectedAnchorElement(), as a truth value (the callers test it
\* only): a collapsed selection is inside an anchor element when it has
\* anchorHref; a non-collapsed one selects an anchor element when its first
\* range holds exactly the items of one element.
GetSelectedAnchorElement(d, sel) ==
    IF IsCollapsed(sel)
    THEN HasAnchorHref(sel)
    ELSE LET r == sel.ranges[1]
             b == d[r.blk]
         IN  /\ \A k \in RangeItems(r) :
                   InAnchorElement(b[k]) /\ b[k].href = b[r.s + 1].href
             /\ r.s >= 1 => ~SameAnchorElement(b[r.s], b[r.s + 1])
             /\ r.e < Len(b) => ~SameAnchorElement(b[r.e], b[r.e + 1])

\* The first item of the view element of the given tag around item k: of the
\* run of adjacent text items with item k's anchorHref that, for <strong>, are
\* bold.
ElementStart(b, k, tag) ==
    LET Same(j) == /\ b[j].kind = "text"
                   /\ b[j].href = b[k].href
                   /\ tag = "strong" => "bold" \in b[j].fmt
    IN  CHOOSE s \in 1..k :
           /\ \A j \in s..k : Same(j)
           /\ s = 1 \/ ~Same(s - 1)

\* The innermost view element around a position that is rendered with the
\* given attributes: <strong>, else <a>, else the block.  It is the element of
\* item k when that item is text with these attributes, an element of the
\* position's own otherwise (at 0).
InnermostElement(d, blk, k, attrs) ==
    LET tag == IF "bold" \in attrs.fmt THEN "strong"
               ELSE IF attrs.href # Undefined THEN "a" ELSE "p"
        ofItem == /\ k >= 1
                  /\ d[blk][k].kind = "text"
                  /\ d[blk][k].href = attrs.href
                  /\ d[blk][k].fmt = attrs.fmt
    IN  [tag |-> tag, blk |-> blk,
         at |-> IF tag # "p" /\ ofItem THEN ElementStart(d[blk], k, tag) ELSE 0]

\* getSelectionParent() of _startUpdatingUI: the closest element around the
\* focus of the view selection.  A collapsed selection is rendered inside the
\* elements of its own attributes; the end of a range is rendered in the block,
\* unless it falls inside one text node.
GetSelectionParent(d, sel) ==
    LET last == sel.ranges[Len(sel.ranges)]
        b == d[last.blk]
        off == last.e
        taken == IF ~sel.override /\ off >= 1 /\ b[off].kind = "text"
                 THEN off
                 ELSE IF off < Len(b) /\ b[off + 1].kind = "text"
                      THEN off + 1 ELSE 0
    IN  IF IsCollapsed(sel)
        THEN InnermostElement(d, last.blk, taken, sel.attrs)
        ELSE IF InTextNode(b, off)
             THEN InnermostElement(d, last.blk, off, ItemAttributes(b[off]))
             ELSE [tag |-> "p", blk |-> last.blk, at |-> 0]

-----------------------------------------------------------------------------
(* The highlight of the selected anchor (AnchorEditing._setupAnchorHighlight). *)
(* The editing view is the record [highlightedAnchors, duringConversion]:   *)
(* the <a> elements that have the class ck-anchor_selected, and those that  *)
(* had it while the last conversion ran.  An <a> element is named by its    *)
(* block, its first item and its href.                                      *)

\* The <a> element around item k of block blk.
AnchorElementOf(d, blk, k) ==
    [blk |-> blk, at |-> ElementStart(d[blk], k, "a"), href |-> d[blk][k].href]

\* The <a> elements of the view of the document.
AnchorElements(d) ==
    { AnchorElementOf(d, p.blk, p.k) :
        p \in { q \in UNION { { [blk |-> b, k |-> k] : k \in 1..Len(d[b]) } :
                                b \in 1..Len(d) } :
                   InAnchorElement(d[q.blk][q.k]) } }

\* The <a> elements among the items of the view range of the anchor range at
\* the selection: those that start in it.
AnchorsToHighlight(d, sel) ==
    IF ~HasAnchorHref(sel) THEN {}
    ELSE LET modelRange == FindAnchorRange(FirstPosition(sel), sel.attrs.href, d)
         IN  { a \in AnchorElements(d) :
                  a.blk = modelRange.blk /\ a.at \in RangeItems(modelRange) }

\* removeHighlight(): the class is removed from every element of the set and
\* the set is emptied.
RemoveHighlight(e) == [e EXCEPT !.view.highlightedAnchors = {}]

\* The converters of the downcast dispatcher run: the view is that of the
\* document; the elements that have the class at this moment are noted.
Convert(e) == [e EXCEPT !.view.duringConversion = e.view.highlightedAnchors]

\* The view post-fixer: the class is added to the <a> elements of the anchor at
\* the selection that do not have it.
HighlightPostFixer(e) ==
    [e EXCEPT !.view.highlightedAnchors =
        @ \cup (AnchorsToHighlight(e.doc, e.sel) \ @)]

\* A render cycle without removeHighlight.
RenderKeepingHighlight(e) == HighlightPostFixer(Convert(e))

\* A render cycle after a change of the model: removeHighlight at the first
\* event of the dispatcher (the selection is converted in every cycle), the
\* conversion, the post-fixer.
Render(e) == HighlightPostFixer(Convert(RemoveHighlight(e)))

-----------------------------------------------------------------------------
(* The contextual balloon: the stack "main", in which AnchorUI keeps its    *)
(* two views, and one more stack that holds the view of another feature.    *)
(* A balloon is [main, other, visibleStack, thrown]: the views of "main"    *)
(* from bottom to top, whether the other stack exists, the stack that is    *)
(* shown ("none" when the balloon is empty) and whether a call has thrown.  *)

EmptyBalloon ==
    [main |-> <<>>, other |-> FALSE, visibleStack |-> "none", thrown |-> FALSE]

\* balloon.hasView( view )
HasView(b, view) == \E i \in 1..Len(b.main) : b.main[i] = view

\* balloon.visibleView
VisibleView(b) ==
    IF b.visibleStack = "main" THEN b.main[Len(b.main)]
    ELSE IF b.visibleStack = "other" THEN "otherView"
    ELSE "none"

\* balloon.add( { view } ): throws when the view is in the balloon; the view
\* goes on top of "main", and "main" is shown when no stack was shown.
BalloonAdd(b, view) ==
    IF HasView(b, view)
    THEN [b EXCEPT !.thrown = TRUE]
    ELSE [b EXCEPT !.main = Append(@, view),
                   !.visibleStack = IF @ = "none" THEN "main" ELSE @]

\* balloon.remove( view ): throws when the view is not in the balloon; when
\* the last view of the shown stack goes, the next stack is shown.
BalloonRemove(b, view) ==
    LET rest == SelectSeq(b.main, LAMBDA v : v # view)
    IN  IF ~HasView(b, view)
        THEN [b EXCEPT !.thrown = TRUE]
        ELSE [b EXCEPT !.main = rest,
                       !.visibleStack =
                           IF @ = "main" /\ rest = <<>>
                           THEN IF b.other THEN "other" ELSE "none"
                           ELSE @]

\* balloon.showStack( 'main' ): throws when there is no such stack.
BalloonShowStack(b) ==
    IF b.main = <<>>
    THEN [b EXCEPT !.thrown = TRUE]
    ELSE [b EXCEPT !.visibleStack = "main"]

-----------------------------------------------------------------------------
(* AnchorUI.  The editor is a record e: the model's fields (doc, sel,       *)
(* depth, batches, stray), the two commands, the balloon, and ui =          *)
(* [updating, prevSelectedAnchor, prevSelectionParent], the listener that   *)
(* _startUpdatingUI registers and the two variables it closes over.         *)

NoElement == [tag |-> "none", blk |-> 0, at |-> 0]

InitialUI ==
    [updating |-> FALSE, prevSelectedAnchor |-> FALSE,
     prevSelectionParent |-> NoElement]

IsFormInPanel(e) == HasView(e.balloon, "formView")

AreActionsInPanel(e) == HasView(e.balloon, "actionsView")

AreActionsVisible(e) == VisibleView(e.balloon) = "actionsView"

IsUIInPanel(e) == IsFormInPanel(e) \/ AreActionsInPanel(e)

IsUIVisible(e) == VisibleView(e.balloon) = "formView" \/ AreActionsVisible(e)

\* _removeFormView()
RemoveFormView(e) ==
    IF IsFormInPanel(e)
    THEN [e EXCEPT !.balloon = BalloonRemove(@, "formView")]
    ELSE e

\* _hideUI that removes the actions view only.
HideUIActionsOnly(e) ==
    IF ~IsUIInPanel(e)
    THEN e
    ELSE [e EXCEPT !.ui.updating = FALSE,
                   !.balloon = BalloonRemove(@, "actionsView")]

\* _hideUI that leaves the update listeners registered.
HideUIStillListening(e) ==
    IF ~IsUIInPanel(e)
    THEN e
    ELSE LET formless == RemoveFormView(e)
         IN  [formless EXCEPT !.balloon = BalloonRemove(@, "actionsView")]

\* _hideUI()
HideUI(e) ==
    IF ~IsUIInPanel(e)
    THEN e
    ELSE LET stopped == [e EXCEPT !.ui.updating = FALSE]
             formless == RemoveFormView(stopped)
         IN  [formless EXCEPT !.balloon = BalloonRemove(@, "actionsView")]

\* balloon.updatePosition(): the balloon is asked to take its place again.
BalloonUpdatePosition(e) == [e EXCEPT !.updatePosition = TRUE]

\* update() that hides the UI only when the selection left an anchor.
UpdateOutOfAnchorOnly(e) ==
    LET selectedAnchor == GetSelectedAnchorElement(e.doc, e.sel)
        selectionParent == GetSelectionParent(e.doc, e.sel)
        hide == e.ui.prevSelectedAnchor /\ ~selectedAnchor
        shown == IF hide THEN HideUI(e) ELSE e
    IN  [shown EXCEPT !.ui.prevSelectedAnchor = selectedAnchor,
                      !.ui.prevSelectionParent = selectionParent]

\* update(), the listener of editor.ui 'update' and of the balloon's
\* 'change:visibleView'.
Update(e) ==
    LET selectedAnchor == GetSelectedAnchorElement(e.doc, e.sel)
        selectionParent == GetSelectionParent(e.doc, e.sel)
        hide == \/ e.ui.prevSelectedAnchor /\ ~selectedAnchor
                \/ ~e.ui.prevSelectedAnchor
                   /\ selectionParent # e.ui.prevSelectionParent
        shown == IF hide THEN HideUI(e)
                 ELSE IF IsUIVisible(e) THEN BalloonUpdatePosition(e)
                 ELSE e
    IN  [shown EXCEPT !.ui.prevSelectedAnchor = selectedAnchor,
                      !.ui.prevSelectionParent = selectionParent]

\* The listener runs when it is registered; _hideUI unregisters it.
Notify(e) == IF e.ui.updating THEN Update(e) ELSE e

\* A call that may change balloon.visibleView, followed by the listener of
\* 'change:visibleView' when the visible view did change.
VisibleViewChange(before, after) ==
    IF VisibleView(after.balloon) # VisibleView(before.balloon)
    THEN Notify(after) ELSE after

\* _addActionsView()
AddActionsView(e) ==
    IF AreActionsInPanel(e)
    THEN e
    ELSE VisibleViewChange(e, [e EXCEPT !.balloon = BalloonAdd(@, "actionsView")])

\* _addFormView without its check that the form is in the balloon.
AddFormViewUnguarded(e) ==
    VisibleViewChange(e, [e EXCEPT !.balloon = BalloonAdd(@, "formView")])

\* _addFormView()
AddFormView(e) ==
    IF IsFormInPanel(e)
    THEN e
    ELSE VisibleViewChange(e, [e EXCEPT !.balloon = BalloonAdd(@, "formView")])

\* _startUpdatingUI()
StartUpdatingUI(e) ==
    [e EXCEPT !.ui = [updating |-> TRUE,
                      prevSelectedAnchor |-> GetSelectedAnchorElement(e.doc, e.sel),
                      prevSelectionParent |-> GetSelectionParent(e.doc, e.sel)]]

\* balloon.showStack( 'main' ) when forceVisible
ShowMainStack(e, forceVisible) ==
    IF forceVisible
    THEN VisibleViewChange(e, [e EXCEPT !.balloon = BalloonShowStack(@)])
    ELSE e

\* _showUI that goes to the form whatever is under the selection.
ShowUIStraightToForm(e, forceVisible) ==
    StartUpdatingUI(AddFormView(ShowMainStack(AddActionsView(e), forceVisible)))

\* _showUI that shows the actions first whatever is under the selection.
ShowUIActionsFirst(e, forceVisible) ==
    StartUpdatingUI(ShowMainStack(IF AreActionsVisible(e)
                                  THEN AddFormView(e)
                                  ELSE AddActionsView(e),
                                  forceVisible))

\* _showUI( forceVisible )
ShowUI(e, forceVisible) ==
    StartUpdatingUI(
        IF ~GetSelectedAnchorElement(e.doc, e.sel)
        THEN AddFormView(ShowMainStack(AddActionsView(e), forceVisible))
        ELSE ShowMainStack(IF AreActionsVisible(e)
                           THEN AddFormView(e)
                           ELSE AddActionsView(e),
                           forceVisible))

\* restoreManualDecoratorStates that switches every decorator off.
RestoreManualDecoratorStatesOff(e) ==
    [e EXCEPT !.anchorCommand.manualDecorators =
        [name \in ManualDecorators |-> Undefined]]

\* AnchorCommand.restoreManualDecoratorStates()
RestoreManualDecoratorStates(e) ==
    [e EXCEPT !.anchorCommand.manualDecorators =
        [name \in ManualDecorators |-> GetDecoratorStateFromModel(e.sel, name)]]

\* _closeFormView that leaves the decorators as the switch buttons set them.
CloseFormViewWithoutRestore(e) ==
    IF e.anchorCommand.value # Undefined
    THEN VisibleViewChange(e, RemoveFormView(e))
    ELSE HideUI(e)

\* _closeFormView()
CloseFormView(e) ==
    LET restored == RestoreManualDecoratorStates(e)
    IN  IF restored.anchorCommand.value # Undefined
        THEN LET closed == RemoveFormView(restored)
             IN  VisibleViewChange(restored, closed)
        ELSE HideUI(restored)

\* What follows a change of the model: the document's 'change' event refreshes
\* the commands, the view is rendered (Render) and editor.ui fires 'update'.  Nothing
\* happens when the change block changed nothing.
AfterChange(before, after) ==
    IF after.doc = before.doc /\ after.sel = before.sel
    THEN after
    ELSE Notify(Render([after EXCEPT
                    !.anchorCommand = AnchorRefresh(after.doc, after.sel),
                    !.unanchorCommand = UnanchorRefresh(after.sel)]))

\* formView.getDecoratorSwitchesState(): every decorator with the state of its
\* switch button, which shows the decorator's value.
GetDecoratorSwitchesState(e) ==
    [name \in ManualDecorators |-> e.anchorCommand.manualDecorators[name] = "true"]

\* The listener of 'submit' that calls _closeFormView before the command.
OnSubmitClosingFirst(e, value) ==
    LET closed == CloseFormView(e)
    IN  AfterChange(closed,
                    AnchorExecute(closed, value, GetDecoratorSwitchesState(closed)))

\* The listener of formView 'submit'.
OnSubmit(e, value) ==
    CloseFormView(
        AfterChange(e, AnchorExecute(e, value, GetDecoratorSwitchesState(e))))

\* The listener of formView 'cancel', and Esc in the form.
OnCancel(e) == CloseFormView(e)

\* The listener of actionsView 'edit', and Ctrl+M in the actions.
OnEdit(e) == AddFormView(e)

\* The listener of 'unanchor' without its call of _hideUI.
OnUnanchorKeepingUI(e) ==
    AfterChange(e, UnanchorExecute(e, ManualDecorators))

\* The listener of actionsView 'unanchor'.
OnUnanchor(e) ==
    HideUI(AfterChange(e, UnanchorExecute(e, ManualDecorators)))

\* The listener of the view document's 'click'.
OnClick(e) ==
    IF GetSelectedAnchorElement(e.doc, e.sel) THEN ShowUI(e, FALSE) ELSE e

\* Esc in the editable.
OnEsc(e) == IF IsUIVisible(e) THEN HideUI(e) ELSE e

\* Esc in the actions view that closes as Esc in the form does.
OnEscActionsAsInForm(e) == CloseFormView(e)

\* Esc in the actions view.
OnEscActions(e) == HideUI(e)

\* Esc in the form view.
OnEscForm(e) == CloseFormView(e)

\* The click outside handler that acts when a view of AnchorUI is visible.
OnClickOutsideWhenVisible(e) == IF IsUIVisible(e) THEN HideUI(e) ELSE e

\* The click outside handler.
OnClickOutside(e) == IF IsUIInPanel(e) THEN HideUI(e) ELSE e

\* A switch button of the form is pressed: the decorator's value is negated.
OnSwitch(e, name) ==
    [e EXCEPT !.anchorCommand.manualDecorators[name] =
        IF @ = "true" THEN "false" ELSE "true"]

\* The user, or another feature, moves the selection.
OnSelectionChange(e, sel) ==
    AfterChange(e, [e EXCEPT !.sel = sel])

NoEvent ==
    [name |-> "none", force |-> FALSE,
     before |-> [balloon |-> EmptyBalloon, doc |-> <<>>, ui |-> InitialUI,
                 anchorCommand |-> <<>>, collapsed |-> FALSE, sel |-> <<>>,
                 prev |-> <<>>],
     updatePosition |-> FALSE]

-----------------------------------------------------------------------------
(* The documents and selections the editor starts from. *)

\* Two blocks.  The first holds two pieces of text and a third item that is a
\* piece of text or an inline object, the second one piece of text.  Items are
\* plain, or carry anchorHref "a" or "b" with or without a decorator; an inline
\* object may carry the attribute although the schema does not allow it there
\* (the writer does not consult the schema).
InitDocs ==
    { << <<i1, i2, i3>>, <<i4>> >> :
        i1 \in { Text("x", Undefined, {}, {"bold"}),
                 Text("x", "a", {"anchorIsExternal"}, {}),
                 Text("x", "b", {"anchorIsDownloadable"}, {}) },
        i2 \in { Text("y", Undefined, {}, {}),
                 Text("y", "a", {"anchorIsExternal"}, {}),
                 Text("y", "a", {}, {"bold"}) },
        i3 \in { InlineObject("img", Undefined, {}),
                 InlineObject("img", "a", {"anchorIsExternal"}),
                 Text("z", "b", {"anchorIsDownloadable"}, {}) },
        i4 \in { Text("w", Undefined, {}, {}),
                 Text("w", "a", {"anchorIsExternal"}, {}) } }

\* Every position of a document.
Positions(d) ==
    UNION { { [blk |-> b, off |-> o] : o \in 0..Len(d[b]) } : b \in 1..Len(d) }

\* Every non-empty range of a document.
RangesOf(d) ==
    UNION { { [blk |-> b, s |-> s, e |-> e] :
                s \in 0..Len(d[b]) - 1, e \in 1..Len(d[b]) } : b \in 1..Len(d) }

\* r1 lies before r2 and does not overlap it.
Before(r1, r2) == r1.blk < r2.blk \/ (r1.blk = r2.blk /\ r1.e <= r2.s)

\* The range lists of a non-collapsed selection: disjoint, in document order.
RangeLists(d) ==
    { q \in UNION { [1..n -> { r \in RangesOf(d) : r.s < r.e }] : n \in 1..MaxRanges } :
        \A i \in 1..Len(q) - 1 : Before(q[i], q[i + 1]) }

\* The selection with the given ranges and gravity, its attributes taken from
\* the content.
SelectionAt(d, ranges, override) ==
    [ranges |-> ranges,
     attrs |-> SurroundingAttributes(d, ranges, override),
     override |-> override,
     removed |-> {}]

\* The selections of a document: collapsed at any position with either gravity,
\* or any list of ranges.
Selections(d) ==
    { SelectionAt(d, <<[blk |-> p.blk, s |-> p.off, e |-> p.off]>>, g) :
        p \in Positions(d), g \in BOOLEAN }
    \cup { SelectionAt(d, q, FALSE) : q \in RangeLists(d) }

-----------------------------------------------------------------------------
(* The state machine. *)

Init ==
    /\ doc \in InitDocs
    /\ selection \in Selections(doc)
    /\ anchorCommand = AnchorRefresh(doc, selection)
    /\ unanchorCommand = UnanchorRefresh(selection)
    /\ batches = 0
    /\ pendingChanges = 0
    /\ strayWrites = FALSE
    /\ executed = <<>>
    /\ balloon = EmptyBalloon
    /\ anchorUI = InitialUI
    /\ handled = NoEvent
    /\ nestedChanges = {}
    /\ editingView = [highlightedAnchors |-> AnchorsToHighlight(doc, selection),
                      duringConversion |-> {}]

\* The model as the commands find it.
CurrentModel ==
    [doc |-> doc, sel |-> selection, depth |-> pendingChanges,
     batches |-> batches, stray |-> strayWrites, nested |-> nestedChanges,
     view |-> editingView]

\* The model after a command has run, and the refresh of both commands and the
\* render cycle that the document's 'change' event triggers.
Becomes(m) ==
    /\ doc' = m.doc
    /\ selection' = m.sel
    /\ pendingChanges' = m.depth
    /\ batches' = m.batches
    /\ strayWrites' = m.stray
    /\ nestedChanges' = m.nested
    /\ editingView' = IF m.doc = doc /\ m.sel = selection
                      THEN m.view ELSE Render(m).view
    /\ anchorCommand' = AnchorRefresh(m.doc, m.sel)
    /\ unanchorCommand' = UnanchorRefresh(m.sel)
    /\ UNCHANGED <<balloon, anchorUI, handled>>

\* editor.execute( 'anchor', href, manualDecoratorIds )
ExecuteAnchor(href, manualDecoratorIds) ==
    /\ Len(executed) < MaxCalls
    /\ Becomes(AnchorExecute(CurrentModel, href, manualDecoratorIds))
    /\ executed' = Append(executed, [name |-> "anchor", href |-> href,
                                     ids |-> manualDecoratorIds,
                                     doc |-> doc, sel |-> selection])

\* editor.execute( 'unanchor' )
ExecuteUnanchor ==
    /\ Len(executed) < MaxCalls
    /\ Becomes(UnanchorExecute(CurrentModel, ManualDecorators))
    /\ executed' = Append(executed, [name |-> "unanchor", href |-> Undefined,
                                     ids |-> <<>>,
                                     doc |-> doc, sel |-> selection])

Next ==
    \/ \E href \in Hrefs, ids \in DecoratorMappings : ExecuteAnchor(href, ids)
    \/ ExecuteUnanchor

Spec == Init /\ [][Next]_vars

-----------------------------------------------------------------------------
(* The editor with its user interface: the commands are run by the form and *)
(* the actions of AnchorUI, the selection moves, and another feature shows  *)
(* and hides a view of its own in the balloon.                              *)

\* The documents the editor with its interface starts from: the first block
\* holds bold text or text of anchor "a", plain text or text of anchor "a", and
\* text of anchor "b"; the second block holds plain text.
UIDocs ==
    { d \in InitDocs : /\ d[1][1].href # "b"
                       /\ d[1][2].fmt = {}
                       /\ d[1][3].kind = "text"
                       /\ d[2][1].href = Undefined }

\* Its selections: collapsed, or one range.
UISelections(d) ==
    { s \in Selections(d) : Len(s.ranges) = 1 /\ ~s.override }

InitUI ==
    /\ doc \in UIDocs
    /\ selection \in UISelections(doc)
    /\ anchorCommand = AnchorRefresh(doc, selection)
    /\ unanchorCommand = UnanchorRefresh(selection)
    /\ batches = 0
    /\ pendingChanges = 0
    /\ strayWrites = FALSE
    /\ executed = <<>>
    /\ balloon = EmptyBalloon
    /\ anchorUI = InitialUI
    /\ handled = NoEvent
    /\ nestedChanges = {}
    /\ editingView = [highlightedAnchors |-> AnchorsToHighlight(doc, selection),
                      duringConversion |-> {}]

\* The editor as a handler finds it.
CurrentEditor ==
    [doc |-> doc, sel |-> selection, depth |-> pendingChanges,
     batches |-> batches, stray |-> strayWrites, nested |-> nestedChanges,
     view |-> editingView,
     anchorCommand |-> anchorCommand, unanchorCommand |-> unanchorCommand,
     balloon |-> balloon, ui |-> anchorUI, updatePosition |-> FALSE]

\* The state before an event, for `handled`: the balloon and the document,
\* and of AnchorUI and the anchor command what the event's kind asks to keep.
Snapshot(kept) ==
    [balloon |-> balloon,
     doc |-> doc,
     ui |-> IF "ui" \in kept THEN anchorUI ELSE InitialUI,
     anchorCommand |-> IF "anchorCommand" \in kept THEN anchorCommand ELSE <<>>,
     collapsed |-> IF "collapsed" \in kept THEN IsCollapsed(selection) ELSE FALSE,
     sel |-> IF "sel" \in kept THEN selection ELSE <<>>,
     prev |-> IF "prev" \in kept THEN handled ELSE <<>>]

\* The interface is followed up to the last command call of the exploration.
Running == Len(executed) < MaxCalls

\* The editor after the handler of the named event has run.
Handled(name, force, kept, e) ==
    /\ Running
    /\ doc' = e.doc
    /\ selection' = e.sel
    /\ pendingChanges' = e.depth
    /\ batches' = e.batches
    /\ strayWrites' = e.stray
    /\ nestedChanges' = e.nested
    /\ editingView' = e.view
    /\ anchorCommand' = e.anchorCommand
    /\ unanchorCommand' = e.unanchorCommand
    /\ balloon' = e.balloon
    /\ anchorUI' = e.ui
    /\ handled' = [name |-> name, force |-> force, before |-> Snapshot(kept),
                   updatePosition |-> e.updatePosition]

\* The toolbar button or Ctrl+M: _showUI( true ).
Open ==
    /\ Handled("open", TRUE, {}, ShowUI(CurrentEditor, TRUE))
    /\ UNCHANGED executed

\* A click in the editing view.
Click ==
    /\ Handled("click", FALSE, {}, OnClick(CurrentEditor))
    /\ UNCHANGED executed

\* The actions view fires 'edit' (its edit button), or Ctrl+M is pressed in it.
Edit ==
    /\ AreActionsInPanel(CurrentEditor)
    /\ Handled("edit", FALSE, {}, OnEdit(CurrentEditor))
    /\ UNCHANGED executed

\* The unanchor button of the actions, enabled as the command is.
Unanchor ==
    /\ AreActionsVisible(CurrentEditor)
    /\ unanchorCommand.isEnabled
    /\ Handled("unanchor", FALSE, {}, OnUnanchor(CurrentEditor))
    /\ executed' = Append(executed, [name |-> "unanchor", href |-> Undefined,
                                     ids |-> <<>>,
                                     doc |-> doc, sel |-> selection])

\* The form is submitted with a value in its input; the save button is enabled
\* as the command is.
Submit(value) ==
    /\ VisibleView(balloon) = "formView"
    /\ anchorCommand.isEnabled
    /\ Handled("submit", FALSE, {"prev"}, OnSubmit(CurrentEditor, value))
    /\ executed' = Append(executed,
                          [name |-> "anchor", href |-> value,
                           ids |-> GetDecoratorSwitchesState(CurrentEditor),
                           doc |-> doc, sel |-> selection])

\* The cancel button of the form.
Cancel ==
    /\ VisibleView(balloon) = "formView"
    /\ Handled("cancel", FALSE, {"anchorCommand"}, OnCancel(CurrentEditor))
    /\ UNCHANGED executed

\* A switch button of the form.
Switch(name) ==
    /\ VisibleView(balloon) = "formView"
    /\ Handled("switch", FALSE, {}, OnSwitch(CurrentEditor, name))
    /\ UNCHANGED executed

\* anchorCommand.restoreManualDecoratorStates() called on its own.
Restore ==
    /\ Handled("restore", FALSE, {"anchorCommand", "sel"},
               RestoreManualDecoratorStates(CurrentEditor))
    /\ UNCHANGED executed

\* Esc in the editable.
Esc ==
    /\ Handled("esc", FALSE, {}, OnEsc(CurrentEditor))
    /\ UNCHANGED executed

\* Esc with the focus in the actions view.
EscActions ==
    /\ AreActionsVisible(CurrentEditor)
    /\ Handled("escActions", FALSE, {}, OnEscActions(CurrentEditor))
    /\ UNCHANGED executed

\* Esc with the focus in the form view.
EscForm ==
    /\ VisibleView(balloon) = "formView"
    /\ Handled("escForm", FALSE, {}, OnEscForm(CurrentEditor))
    /\ UNCHANGED executed

\* A click outside the balloon.
ClickOutside ==
    /\ Handled("clickOutside", FALSE, {}, OnClickOutside(CurrentEditor))
    /\ UNCHANGED executed

\* The selection moves.
SelectionChange(sel) ==
    /\ sel # selection
    /\ Handled("selection", FALSE, {"ui", "collapsed"},
               OnSelectionChange(CurrentEditor, sel))
    /\ UNCHANGED executed

\* Another feature adds its view to a stack of its own.
OtherAdd ==
    /\ ~balloon.other
    /\ LET e == CurrentEditor
       IN  Handled("otherAdd", FALSE, {},
                   VisibleViewChange(e,
                       [e EXCEPT !.balloon.other = TRUE,
                                 !.balloon.visibleStack =
                                     IF @ = "none" THEN "other" ELSE @]))
    /\ UNCHANGED executed

\* The other feature removes its view.
OtherRemove ==
    /\ balloon.other
    /\ LET e == CurrentEditor
       IN  Handled("otherRemove", FALSE, {},
                   VisibleViewChange(e,
                       [e EXCEPT !.balloon.other = FALSE,
                                 !.balloon.visibleStack =
                                     IF @ = "other"
                                     THEN IF e.balloon.main # <<>>
                                          THEN "main" ELSE "none"
                                     ELSE @]))
    /\ UNCHANGED executed

\* The user turns the balloon to the other stack.
OtherShow ==
    /\ balloon.other
    /\ balloon.visibleStack = "main"
    /\ LET e == CurrentEditor
       IN  Handled("otherShow", FALSE, {},
                   VisibleViewChange(e,
                       [e EXCEPT !.balloon.visibleStack = "other"]))
    /\ UNCHANGED executed

NextUI ==
    \/ Open
    \/ Click
    \/ Edit
    \/ Unanchor
    \/ \E value \in Hrefs : Submit(value)
    \/ Cancel
    \/ \E name \in ManualDecorators : Switch(name)
    \/ Restore
    \/ Esc
    \/ EscActions
    \/ EscForm
    \/ ClickOutside
    \/ \E sel \in UISelections(doc) : SelectionChange(sel)
    \/ OtherAdd
    \/ OtherRemove
    \/ OtherShow

SpecUI == InitUI /\ [][NextUI]_vars

-----------------------------------------------------------------------------
(* The commands and the two-step caret movement that AnchorEditing binds to *)
(* anchorHref: with the caret at the start of a block, inside the anchor    *)
(* the block starts with, the left arrow key does not move the caret but    *)
(* takes anchorHref, and no other attribute, from the selection.            *)

\* model.change( writer => writer.removeSelectionAttribute( 'anchorHref' ) )
RemoveSelectionAnchorHref(m) ==
    ChangeEnd([ChangeBegin(m) EXCEPT !.sel.attrs.href = Undefined,
                                     !.sel.removed = @ \cup {"anchorHref"}])

\* The left arrow key with the caret at the start of a block, the selection
\* having anchorHref and its gravity not overridden.
TwoStepCaretBackward ==
    /\ Len(executed) < MaxCalls
    /\ IsCollapsed(selection)
    /\ FirstPosition(selection).off = 0
    /\ HasAnchorHref(selection)
    /\ ~selection.override
    /\ Becomes(RemoveSelectionAnchorHref(CurrentModel))
    /\ UNCHANGED executed

NextCaret ==
    \/ TwoStepCaretBackward
    \/ Next

SpecCaret == Init /\ [][NextCaret]_vars

-----------------------------------------------------------------------------
(* The form used on any document and selection of the editor, a selection   *)
(* of several ranges and one that starts with an inline object included:    *)
(* the form is opened, its switch buttons are pressed, it is submitted.     *)

NextForm ==
    \/ Open
    \/ \E name \in ManualDecorators : Switch(name)
    \/ \E value \in Hrefs : Submit(value)

SpecForm == Init /\ [][NextForm]_vars

-----------------------------------------------------------------------------
(* Content inserted by another feature: model.insertContent( node,          *)
(* position ) at the position of the collapsed selection, with the listener *)
(* that AnchorEditing registers on 'insertContent'.                         *)

\* The nodes that are inserted: plain or bold text, plain or bold text of an
\* anchor with or without a decorator, an inline object.
InsertedNodes ==
    { Text("n", Undefined, {}, {}),
      Text("n", Undefined, {}, {"bold"}),
      Text("n", "a", {"anchorIsExternal"}, {}),
      Text("n", "a", {}, {"bold"}),
      Text("n", "b", {"anchorIsDownloadable"}, {"bold"}),
      InlineObject("obj", Undefined, {}) }

\* The editor starts with a collapsed selection, of either gravity.
InitInsert ==
    /\ doc \in InitDocs
    /\ selection \in { s \in Selections(doc) : IsCollapsed(s) }
    /\ anchorCommand = AnchorRefresh(doc, selection)
    /\ unanchorCommand = UnanchorRefresh(selection)
    /\ batches = 0
    /\ pendingChanges = 0
    /\ strayWrites = FALSE
    /\ executed = <<>>
    /\ balloon = EmptyBalloon
    /\ anchorUI = InitialUI
    /\ handled = NoEvent
    /\ nestedChanges = {}
    /\ editingView = [highlightedAnchors |-> AnchorsToHighlight(doc, selection),
                      duringConversion |-> {}]

\* model.insertContent( node, position ): `handled` keeps the document and the
\* selection as the listener of 'insertContent' found them, after the default
\* action.
InsertNode(node) ==
    /\ Len(executed) < MaxCalls
    /\ IsCollapsed(selection)
    /\ LET inserted == InsertContentDefault(CurrentModel, node,
                                            FirstPosition(selection))
           fixed == SelectionAttributesFixer(inserted)
       IN  /\ doc' = fixed.doc
           /\ selection' = fixed.sel
           /\ pendingChanges' = fixed.depth
           /\ batches' = fixed.batches
           /\ strayWrites' = fixed.stray
           /\ nestedChanges' = fixed.nested
           /\ editingView' = Render(fixed).view
           /\ anchorCommand' = AnchorRefresh(fixed.doc, fixed.sel)
           /\ unanchorCommand' = UnanchorRefresh(fixed.sel)
           /\ handled' = [NoEvent EXCEPT !.name = "insertContent",
                                         !.before.doc = inserted.doc,
                                         !.before.sel = inserted.sel]
    /\ executed' = Append(executed, [name |-> "insertContent",
                                     href |-> node.href, ids |-> <<>>,
                                     doc |-> doc, sel |-> selection])
    /\ UNCHANGED <<balloon, anchorUI>>

NextInsert == \E node \in InsertedNodes : InsertNode(node)

SpecInsert == InitInsert /\ [][NextInsert]_vars

-----------------------------------------------------------------------------
(* Properties.  Every state with a call in `executed` is the state right    *)
(* after the most recent call; the call's record holds its arguments and   *)
(* the document and selection it started from.                             *)

\* The most recent call.
LastCall == executed[Len(executed)]

\* The most recent call was AnchorCommand.execute / UnanchorCommand.execute.
AnchorCalled == executed # <<>> /\ LastCall.name = "anchor"

UnanchorCalled == executed # <<>> /\ LastCall.name = "unanchor"

\* The places of the items of a document.
Places(d) ==
    UNION { { [blk |-> b, k |-> k] : k \in 1..Len(d[b]) } : b \in 1..Len(d) }

\* Both documents have the same blocks with the same number of items.
SameShape(d1, d2) ==
    /\ Len(d1) = Len(d2)
    /\ \A b \in 1..Len(d1) : Len(d1[b]) = Len(d2[b])

InRange(p, r) == p.blk = r.blk /\ p.k \in RangeItems(r)

\* C1: execute( value, toggles ) with a collapsed selection that has anchorHref:
\* the run is resolved with the selection's current value; every item of the
\* resolved run gets anchorHref = value, every other item keeps its anchorHref,
\* and the selection becomes the (non-collapsed) resolved run.
C1_UpdateWholeRun ==
    (AnchorCalled /\ IsCollapsed(LastCall.sel) /\ HasAnchorHref(LastCall.sel)) =>
        LET before == LastCall.doc
            run == FindAnchorRange(FirstPosition(LastCall.sel),
                                   LastCall.sel.attrs.href, before)
        IN  /\ run.s < run.e
            /\ SameShape(before, doc)
            /\ \A p \in Places(before) :
                  doc[p.blk][p.k].href =
                     IF InRange(p, run) THEN LastCall.href
                     ELSE before[p.blk][p.k].href
            /\ selection.ranges = <<run>>

\* C1 witness: execute( "b", ... ) was called with the collapsed selection in a
\* run of two or more items with value "a" next to an item with another value;
\* now the items of the run have "b" and the selection is the run.
C1_Witness ==
    /\ AnchorCalled
    /\ LastCall.href = "b"
    /\ IsCollapsed(LastCall.sel)
    /\ LastCall.sel.attrs.href = "a"
    /\ Len(selection.ranges) = 1
    /\ LET run == selection.ranges[1]
       IN  /\ run.e - run.s >= 2
           /\ \A k \in RangeItems(run) :
                 LastCall.doc[run.blk][k].href = "a" /\ doc[run.blk][k].href = "b"
           /\ \E k \in 1..Len(doc[run.blk]) :
                 k \notin RangeItems(run) /\ doc[run.blk][k].href = "b"

\* C2: execute( value, toggles ) with a collapsed selection without anchorHref
\* and a non-empty value: exactly one item is inserted at the selection's
\* position; it is text whose data is the value, with the selection's attributes,
\* anchorHref = value and every decorator mapped to true; the selection becomes
\* exactly that item.
C2_InsertNewRun ==
    (/\ AnchorCalled
     /\ IsCollapsed(LastCall.sel)
     /\ ~HasAnchorHref(LastCall.sel)
     /\ LastCall.href # "") =>
        LET before == LastCall.doc
            position == FirstPosition(LastCall.sel)
            old == before[position.blk]
            now == doc[position.blk]
            new == now[position.off + 1]
        IN  /\ Len(doc) = Len(before)
            /\ \A b \in 1..Len(before) : b # position.blk => doc[b] = before[b]
            /\ Len(now) = Len(old) + 1
            /\ \A k \in 1..position.off : now[k] = old[k]
            /\ \A k \in position.off + 1..Len(old) : now[k + 1] = old[k]
            /\ new.kind = "text"
            /\ new.data = LastCall.href
            /\ new.href = LastCall.href
            /\ new.fmt = LastCall.sel.attrs.fmt
            /\ new.decs = LastCall.sel.attrs.decs
                          \cup {n \in DOMAIN LastCall.ids : LastCall.ids[n]}
            /\ selection.ranges = <<[blk |-> position.blk, s |-> position.off,
                                     e |-> position.off + 1]>>

\* C2 witness: execute( "b", { anchorIsExternal: true } ) was called with the
\* collapsed selection in bold text without anchorHref; the selected item is new
\* text "b", bold, with anchorHref "b" and the decorator.
C2_Witness ==
    /\ AnchorCalled
    /\ LastCall.href = "b"
    /\ IsCollapsed(LastCall.sel)
    /\ LastCall.sel.attrs = [href |-> Undefined, decs |-> {}, fmt |-> {"bold"}]
    /\ Len(selection.ranges) = 1
    /\ LET r == selection.ranges[1]
       IN  /\ r.e = r.s + 1
           /\ doc[r.blk][r.e] =
                 Text("b", "b", {"anchorIsExternal"}, {"bold"})
           /\ Len(doc[r.blk]) = Len(LastCall.doc[r.blk]) + 1

\* C3: execute( "", toggles ) with a collapsed selection without anchorHref does
\* nothing, whatever the toggles: the document and the selection are as before,
\* no change block stays open and no write went astray.
C3_EmptyValueNoOp ==
    (/\ AnchorCalled
     /\ IsCollapsed(LastCall.sel)
     /\ ~HasAnchorHref(LastCall.sel)
     /\ LastCall.href = "") =>
        /\ doc = LastCall.doc
        /\ selection = LastCall.sel
        /\ pendingChanges = 0
        /\ ~strayWrites

\* C3 witness: execute( "", toggles ) with a decorator mapped to true and one
\* mapped to false was called with the collapsed selection outside any anchor.
C3_Witness ==
    /\ AnchorCalled
    /\ LastCall.href = ""
    /\ IsCollapsed(LastCall.sel)
    /\ ~HasAnchorHref(LastCall.sel)
    /\ \E n \in DOMAIN LastCall.ids : LastCall.ids[n]
    /\ \E n \in DOMAIN LastCall.ids : ~LastCall.ids[n]
    /\ doc = LastCall.doc

\* The item at place p was inside one of the ranges.
Selected(p, ranges) == \E i \in 1..Len(ranges) : InRange(p, ranges[i])

\* C4: execute( value, toggles ) on a non-collapsed selection sets anchorHref to
\* the value on exactly the selected items on which the schema allows it; every
\* other item, the selected items that do not allow it included, keeps all its
\* attributes; nothing fails.
C4_PartialPermission ==
    (AnchorCalled /\ ~IsCollapsed(LastCall.sel)) =>
        LET before == LastCall.doc
        IN  /\ SameShape(before, doc)
            /\ \A p \in Places(before) :
                  IF /\ Selected(p, LastCall.sel.ranges)
                     /\ CheckAttribute(before[p.blk][p.k])
                  THEN doc[p.blk][p.k].href = LastCall.href
                  ELSE doc[p.blk][p.k] = before[p.blk][p.k]
            /\ pendingChanges = 0
            /\ ~strayWrites

\* C4 witness: execute( "b", ... ) was called on two ranges, one holding only an
\* inline object with anchorHref "a", which it still has, the other holding text
\* that had another value and now has "b".
C4_Witness ==
    /\ AnchorCalled
    /\ LastCall.href = "b"
    /\ Len(LastCall.sel.ranges) = 2
    /\ \E i \in 1..2 :
          LET r == LastCall.sel.ranges[i]
          IN  /\ r.e = r.s + 1
              /\ doc[r.blk][r.e].kind = "object"
              /\ doc[r.blk][r.e].href = "a"
    /\ \E i \in 1..2 :
          LET r == LastCall.sel.ranges[i]
          IN  \A k \in RangeItems(r) :
                 /\ doc[r.blk][k].kind = "text"
                 /\ doc[r.blk][k].href = "b"
                 /\ LastCall.doc[r.blk][k].href # "b"

\* C5: execute on a non-collapsed selection leaves the selected ranges as they
\* were.
C5_SelectionKept ==
    (AnchorCalled /\ ~IsCollapsed(LastCall.sel)) =>
        selection.ranges = LastCall.sel.ranges

\* C5 witness: execute was called on two ranges and changed the document; the
\* same two ranges are selected.
C5_Witness ==
    /\ AnchorCalled
    /\ Len(LastCall.sel.ranges) = 2
    /\ doc # LastCall.doc
    /\ selection.ranges = LastCall.sel.ranges

\* The call was execute( currentValue, { A: x } ): the href is the value the
\* selection had, and the mapping names one decorator only.
ToggledOne(a) ==
    /\ AnchorCalled
    /\ HasAnchorHref(LastCall.sel)
    /\ LastCall.href = LastCall.sel.attrs.href
    /\ DOMAIN LastCall.ids = {a}

\* Decorator b is on the same items as before the call.
DecoratorKept(b) ==
    /\ SameShape(LastCall.doc, doc)
    /\ \A p \in Places(LastCall.doc) :
          (b \in doc[p.blk][p.k].decs) <=> (b \in LastCall.doc[p.blk][p.k].decs)

\* C6 as stated: for distinct decorators A and B, execute( currentValue,
\* { A: x } ) leaves B as it was on every item and leaves anchorHref as it was
\* on every item.
C6_Original ==
    \A a \in ManualDecorators : \A b \in ManualDecorators \ {a} :
        ToggledOne(a) =>
            /\ DecoratorKept(b)
            /\ \A p \in Places(LastCall.doc) :
                  doc[p.blk][p.k].href = LastCall.doc[p.blk][p.k].href

\* C6 amended: for distinct decorators A and B, execute( currentValue,
\* { A: x } ) leaves B as it was on every item; it leaves anchorHref as it was
\* on every item when the selection is collapsed, and for a non-collapsed
\* selection on every item but the selected items that allow the attribute,
\* which take currentValue.
C6_DecoratorIndependence ==
    \A a \in ManualDecorators : \A b \in ManualDecorators \ {a} :
        ToggledOne(a) =>
            /\ DecoratorKept(b)
            /\ \A p \in Places(LastCall.doc) :
                  doc[p.blk][p.k].href =
                     IF /\ ~IsCollapsed(LastCall.sel)
                        /\ Selected(p, LastCall.sel.ranges)
                        /\ CheckAttribute(LastCall.doc[p.blk][p.k])
                     THEN LastCall.sel.attrs.href
                     ELSE LastCall.doc[p.blk][p.k].href

\* C6 witness: execute( currentValue, { anchorIsExternal: false } ) was called;
\* anchorIsExternal is gone from an item that had it, and anchorIsDownloadable
\* is still on an item of the selection.
C6_Witness ==
    /\ ToggledOne("anchorIsExternal")
    /\ ~LastCall.ids["anchorIsExternal"]
    /\ \E p \in Places(doc) :
          /\ "anchorIsExternal" \in LastCall.doc[p.blk][p.k].decs
          /\ "anchorIsExternal" \notin doc[p.blk][p.k].decs
    /\ \E p \in Places(doc) :
          /\ Selected(p, selection.ranges)
          /\ "anchorIsDownloadable" \in doc[p.blk][p.k].decs

UnanchorTargets(d, sel) ==
    IF IsCollapsed(sel)
    THEN <<FindAnchorRange(FirstPosition(sel), sel.attrs.href, d)>>
    ELSE sel.ranges

\* C8: after UnanchorCommand.execute() no item of the targeted ranges has
\* anchorHref or a registered decorator, the items on which the schema does not
\* allow the attribute included.
C8_UnconditionalRemoval ==
    UnanchorCalled =>
        /\ SameShape(LastCall.doc, doc)
        /\ \A p \in Places(LastCall.doc) :
              Selected(p, UnanchorTargets(LastCall.doc, LastCall.sel)) =>
                 /\ doc[p.blk][p.k].href = Undefined
                 /\ doc[p.blk][p.k].decs \cap ManualDecorators = {}

\* C8 witness: unanchor was called on a non-collapsed selection that held an
\* inline object and text, both with anchorHref and a decorator; both are clear.
C8_Witness ==
    /\ UnanchorCalled
    /\ ~IsCollapsed(LastCall.sel)
    /\ \E p \in Places(doc) :
          /\ Selected(p, LastCall.sel.ranges)
          /\ LastCall.doc[p.blk][p.k] =
                InlineObject("img", "a", {"anchorIsExternal"})
          /\ doc[p.blk][p.k] = InlineObject("img", Undefined, {})
    /\ \E p \in Places(doc) :
          /\ Selected(p, LastCall.sel.ranges)
          /\ LastCall.doc[p.blk][p.k].kind = "text"
          /\ LastCall.doc[p.blk][p.k].href = "b"
          /\ LastCall.doc[p.blk][p.k].decs # {}
          /\ doc[p.blk][p.k].href = Undefined
          /\ doc[p.blk][p.k].decs = {}

\* C9: every command call runs in exactly one top-level change block: one block
\* per call was opened, none is left open, and no write was made outside a
\* block.
C9_OneTransaction ==
    /\ batches = Len(executed)
    /\ pendingChanges = 0
    /\ ~strayWrites

\* C9 witness: a call inserted an anchor at the end of a block, where the
\* insertion and the selection attributes fixer each open a nested change
\* block; one top-level block was run.
C9_Witness ==
    /\ AnchorCalled
    /\ IsCollapsed(LastCall.sel)
    /\ ~HasAnchorHref(LastCall.sel)
    /\ LET r == selection.ranges[1]
       IN  /\ Len(doc[r.blk]) = Len(LastCall.doc[r.blk]) + 1
           /\ r.e = Len(doc[r.blk])
    /\ batches = 1

\* The range is a maximal run of value v around position p in document d: it
\* lies in p's block around p, every item in it has v, and the items right
\* before and right after it (in the block) do not.
MaximalRun(r, p, v, d) ==
    /\ r.blk = p.blk
    /\ r.s <= p.off
    /\ p.off <= r.e
    /\ \A k \in RangeItems(r) : d[r.blk][k].href = v
    /\ r.s >= 1 => d[r.blk][r.s].href # v
    /\ r.e < Len(d[r.blk]) => d[r.blk][r.e + 1].href # v

\* Position p is inside or at the boundary of a run with value v.
AtRun(p, v, d) ==
    \/ p.off >= 1 /\ d[p.blk][p.off].href = v
    \/ p.off < Len(d[p.blk]) /\ d[p.blk][p.off + 1].href = v

\* C10: for every position inside or at the boundary of a run with value V,
\* findAnchorRange( P, V ) is a non-empty maximal run of V in P's block; and
\* the range the command resolves for a collapsed selection with anchorHref,
\* which it then selects, is the maximal run of the selection's value.
C10_Maximality ==
    /\ \A p \in Positions(doc) : \A v \in Hrefs :
          AtRun(p, v, doc) =>
             LET r == FindAnchorRange(p, v, doc)
             IN  r.s < r.e /\ MaximalRun(r, p, v, doc)
    /\ (AnchorCalled /\ IsCollapsed(LastCall.sel) /\ HasAnchorHref(LastCall.sel)) =>
          /\ Len(selection.ranges) = 1
          /\ MaximalRun(selection.ranges[1], FirstPosition(LastCall.sel),
                        LastCall.sel.attrs.href, LastCall.doc)

\* C10 witness: the command resolved a run of two items that ends at the end of
\* the first block, from a position inside it, while the second block starts
\* with an item of the same value and the item before the run has another one.
C10_Witness ==
    /\ AnchorCalled
    /\ IsCollapsed(LastCall.sel)
    /\ HasAnchorHref(LastCall.sel)
    /\ LET r == selection.ranges[1]
           v == LastCall.sel.attrs.href
           d == LastCall.doc
       IN  /\ r = [blk |-> 1, s |-> 1, e |-> 3]
           /\ FirstPosition(LastCall.sel).off = 2
           /\ d[1][1].href # v
           /\ d[2][1].href = v

\* The attributes of the content at the first position of the selection: for a
\* range those of its first item when that is text; for a collapsed selection
\* those of the text before it, or of the text after it when there is none
\* before it or the gravity is overridden.
AtFirstPosition(d, sel) ==
    LET first == sel.ranges[1]
        b == d[first.blk]
        TextAt(k) == k >= 1 /\ k <= Len(b) /\ b[k].kind = "text"
    IN  IF first.s < first.e
        THEN IF TextAt(first.s + 1) THEN ItemAttributes(b[first.s + 1])
                                    ELSE NoAttributes
        ELSE IF ~sel.override /\ TextAt(first.s) THEN ItemAttributes(b[first.s])
        ELSE IF TextAt(first.s + 1) THEN ItemAttributes(b[first.s + 1])
        ELSE NoAttributes

-----------------------------------------------------------------------------
(* Properties of the interface.  Every state with an event in `handled` is  *)
(* the state right after AnchorUI handled it; `handled.before` holds the    *)
(* balloon and the document before it.                                      *)

Hidden(b) == b.main = <<>>

ActionsShown(b) == b.main = <<"actionsView">>

FormShown(b) == b.main = <<"actionsView", "formView">>

\* The last event was a call of _showUI: the button or keystroke (forced), or a
\* click in an anchor.
Opened ==
    \/ handled.name = "open"
    \/ handled.name = "click" /\ GetSelectedAnchorElement(doc, selection)

\* C12: the views of AnchorUI in the balloon are none (as at the start), the
\* actions alone, or the actions with the form on top of them; no view was
\* added twice or removed while absent; one view at most is the visible one.
C12_PanelStates ==
    /\ Hidden(balloon) \/ ActionsShown(balloon) \/ FormShown(balloon)
    /\ ~balloon.thrown
    /\ handled = NoEvent => Hidden(balloon)
    /\ ~(AreActionsVisible(CurrentEditor) /\ VisibleView(balloon) = "formView")

\* C12 witness: the form was open on top of the actions, behind the view of
\* another feature, and a click outside has removed both views.
C12_Witness ==
    /\ handled.name = "clickOutside"
    /\ FormShown(handled.before.balloon)
    /\ handled.before.balloon.visibleStack = "other"
    /\ Hidden(balloon)

\* C13: _showUI with an anchor under the selection while the actions are not
\* the visible view leaves the actions in the balloon, once, and adds no form:
\* from Hidden the balloon holds the actions alone.
C13_OpenShowsActions ==
    (Opened /\ GetSelectedAnchorElement(doc, selection)
            /\ VisibleView(handled.before.balloon) # "actionsView") =>
        /\ AreActionsInPanel(CurrentEditor)
        /\ Cardinality({i \in 1..Len(balloon.main) :
                            balloon.main[i] = "actionsView"}) = 1
        /\ ~balloon.thrown
        /\ IsFormInPanel(CurrentEditor) <=> HasView(handled.before.balloon, "formView")
        /\ Hidden(handled.before.balloon) => ActionsShown(balloon)

\* C13 witness: Ctrl+M with the caret in an anchor and nothing of AnchorUI in
\* the balloon, which showed another feature's view: the actions are shown.
C13_Witness ==
    /\ handled.name = "open"
    /\ IsCollapsed(selection)
    /\ GetSelectedAnchorElement(doc, selection)
    /\ Hidden(handled.before.balloon)
    /\ handled.before.balloon.visibleStack = "other"
    /\ ActionsShown(balloon)
    /\ AreActionsVisible(CurrentEditor)

\* C14 as stated: with an anchor under the selection and the actions visible,
\* _showUI adds the form exactly when it was forced (button or keystroke); a
\* click leaves the actions alone.
C14_ExplicitEscalationOnly ==
    (Opened /\ GetSelectedAnchorElement(doc, selection)
            /\ ActionsShown(handled.before.balloon)
            /\ VisibleView(handled.before.balloon) = "actionsView") =>
        IF handled.force THEN FormShown(balloon) ELSE ActionsShown(balloon)

\* C15: the button or keystroke with no anchor under the selection leaves the
\* form in the balloon, on top of the actions and visible, from any state.
C15_OpenStraightToForm ==
    (handled.name = "open" /\ ~GetSelectedAnchorElement(doc, selection)) =>
        /\ FormShown(balloon)
        /\ VisibleView(balloon) = "formView"

\* C15 witness: Ctrl+M with the caret in plain text while another feature's
\* view was shown: actions and form are added, the form is visible.
C15_Witness ==
    /\ handled.name = "open"
    /\ IsCollapsed(selection)
    /\ selection.attrs = NoAttributes
    /\ Hidden(handled.before.balloon)
    /\ handled.before.balloon.visibleStack = "other"
    /\ FormShown(balloon)
    /\ VisibleView(balloon) = "formView"

\* C16: 'edit' puts the form on top of the actions; with the form in the
\* balloon it changes nothing of the balloon; it never changes the document.
C16_EditShowsForm ==
    handled.name = "edit" =>
        /\ doc = handled.before.doc
        /\ IF HasView(handled.before.balloon, "formView")
           THEN balloon = handled.before.balloon
           ELSE /\ balloon.main = Append(handled.before.balloon.main, "formView")
                /\ balloon.visibleStack = handled.before.balloon.visibleStack
                /\ ~balloon.thrown

\* C16 witness: 'edit' with the actions alone and visible: the form is shown.
C16_Witness ==
    /\ handled.name = "edit"
    /\ ActionsShown(handled.before.balloon)
    /\ VisibleView(handled.before.balloon) = "actionsView"
    /\ FormShown(balloon)
    /\ VisibleView(balloon) = "formView"

\* C17 as stated: after 'submit' the command has been executed with the form's
\* value and switch states, and the balloon holds the actions alone when the
\* command's value is defined, nothing of AnchorUI otherwise.
C17_SubmitTransition ==
    handled.name = "submit" =>
        /\ AnchorCalled
        /\ IF anchorCommand.value # Undefined
           THEN ActionsShown(balloon)
           ELSE Hidden(balloon)

\* C18: after 'cancel' every manual decorator has the value the model holds at
\* the selection, the document is as before, and the balloon holds the actions
\* alone when the command's value is defined, nothing of AnchorUI otherwise.
C18_CancelRestores ==
    handled.name = "cancel" =>
        /\ \A name \in ManualDecorators :
              anchorCommand.manualDecorators[name] =
                 GetDecoratorStateFromModel(selection, name)
        /\ doc = handled.before.doc
        /\ IF anchorCommand.value # Undefined
           THEN ActionsShown(balloon)
           ELSE Hidden(balloon)

\* C18 witness: anchorIsExternal was switched on in the form over an anchor
\* that does not have it, then 'cancel': the decorator is off again and the
\* actions are shown.
C18_Witness ==
    /\ handled.name = "cancel"
    /\ handled.before.anchorCommand.value = "b"
    /\ handled.before.anchorCommand.manualDecorators["anchorIsExternal"] = "true"
    /\ anchorCommand.manualDecorators["anchorIsExternal"] = Undefined
    /\ ActionsShown(balloon)

\* C19: after 'unanchor' the command has been executed, nothing of AnchorUI is
\* in the balloon, and no item of the anchor that was under the selection has
\* anchorHref or a manual decorator.
C19_UnanchorHides ==
    handled.name = "unanchor" =>
        /\ UnanchorCalled
        /\ Hidden(balloon)
        /\ \A p \in Places(LastCall.doc) :
              Selected(p, UnanchorTargets(LastCall.doc, LastCall.sel)) =>
                 /\ doc[p.blk][p.k].href = Undefined
                 /\ doc[p.blk][p.k].decs \cap ManualDecorators = {}

\* C19 witness: 'unanchor' with the caret in an anchor of two items and the
\* actions shown: both items are plain and the balloon is empty.
C19_Witness ==
    /\ handled.name = "unanchor"
    /\ ActionsShown(handled.before.balloon)
    /\ IsCollapsed(LastCall.sel)
    /\ \A k \in 1..2 : /\ LastCall.doc[1][k].href = "a"
                       /\ doc[1][k].href = Undefined
                       /\ doc[1][k].decs = {}
    /\ Hidden(balloon)

\* C20: what update() remembers is what it saw at the notification before (at
\* _showUI before the first one); and when the selection moves while a view of
\* AnchorUI is in the balloon, the balloon is emptied of them if an anchor was
\* selected before and none is now, or if none was selected before and the
\* selection is now in another block.
C20_SelectionChangeHides ==
    /\ anchorUI.updating =>
          /\ anchorUI.prevSelectedAnchor = GetSelectedAnchorElement(doc, selection)
          /\ anchorUI.prevSelectionParent = GetSelectionParent(doc, selection)
    /\ (/\ handled.name = "selection"
        /\ ~Hidden(handled.before.balloon)
        /\ \/ /\ handled.before.ui.prevSelectedAnchor
              /\ ~GetSelectedAnchorElement(doc, selection)
           \/ /\ ~handled.before.ui.prevSelectedAnchor
              /\ GetSelectionParent(doc, selection).blk
                    # handled.before.ui.prevSelectionParent.blk)
       => Hidden(balloon)

\* C20 witness: the form was open for a new anchor in the first block and the
\* caret moved to the second block: the balloon is empty.
C20_Witness ==
    /\ handled.name = "selection"
    /\ FormShown(handled.before.balloon)
    /\ handled.before.ui.updating
    /\ ~handled.before.ui.prevSelectedAnchor
    /\ handled.before.ui.prevSelectionParent.blk = 1
    /\ selection.ranges[1].blk = 2
    /\ Hidden(balloon)


\* A view of AnchorUI is the visible view of the balloon.
SurfaceVisible(b) == VisibleView(b) \in {"actionsView", "formView"}

\* C21 as stated: when the selection moves and is no longer collapsed while a
\* view of AnchorUI is visible, the balloon is emptied of them.
C21_ExpandedSelectionHides ==
    (/\ handled.name = "selection"
     /\ handled.before.collapsed
     /\ ~IsCollapsed(selection)
     /\ SurfaceVisible(handled.before.balloon)) => Hidden(balloon)

\* Nothing of the balloon or of the listeners changed in the last event, and
\* the balloon was asked to take its place again exactly when a view of AnchorUI
\* was the visible one.
OnlyRepositioned ==
    /\ balloon = handled.before.balloon
    /\ anchorUI.updating = handled.before.ui.updating
    /\ handled.updatePosition <=> SurfaceVisible(handled.before.balloon)

\* The selection left the anchor it was in at the notification before.
LeftAnchor ==
    /\ handled.before.ui.prevSelectedAnchor
    /\ ~GetSelectedAnchorElement(doc, selection)

\* C22 as stated: when the selection moves and none of the three conditions
\* holds (it left an anchor; none was selected and the block changed; it is no
\* longer collapsed while a view is visible), nothing changes but the place of
\* the balloon, asked for only when a view of AnchorUI is visible.
C22_OtherwiseRepositionOnly ==
    (/\ handled.name = "selection"
     /\ ~LeftAnchor
     /\ ~(/\ ~handled.before.ui.prevSelectedAnchor
          /\ GetSelectionParent(doc, selection).blk
                # handled.before.ui.prevSelectionParent.blk)
     /\ ~(/\ handled.before.collapsed
          /\ ~IsCollapsed(selection)
          /\ SurfaceVisible(handled.before.balloon))) => OnlyRepositioned

\* The same with the conditions update() tests (the second one on the
\* selection parent itself, not on its block), while its listener is on.
UpdateOtherwiseRepositionsOnly ==
    (/\ handled.name = "selection"
     /\ ~(/\ handled.before.ui.updating
          /\ \/ LeftAnchor
             \/ /\ ~handled.before.ui.prevSelectedAnchor
                /\ GetSelectionParent(doc, selection)
                      # handled.before.ui.prevSelectionParent)) => OnlyRepositioned

\* C23 as stated: Esc with the focus in the actions view or in the form view
\* leaves nothing of AnchorUI in the balloon, whatever was there.
C23_EscapeHides ==
    handled.name \in {"escActions", "escForm"} => Hidden(balloon)

\* C24: a click outside the balloon while a view of AnchorUI is in it removes
\* them all; with none in it the click changes nothing.
C24_ClickOutsideHides ==
    handled.name = "clickOutside" =>
        /\ Hidden(balloon)
        /\ ~balloon.thrown
        /\ doc = handled.before.doc
        /\ Hidden(handled.before.balloon) =>
              /\ balloon = handled.before.balloon
              /\ ~anchorUI.updating
              /\ ~handled.updatePosition

\* C24 witness: a click outside with the form shown and visible: the balloon
\* is empty.
C24_Witness ==
    /\ handled.name = "clickOutside"
    /\ FormShown(handled.before.balloon)
    /\ VisibleView(handled.before.balloon) = "formView"
    /\ Hidden(balloon)
    /\ ~anchorUI.updating

\* C25: Esc in the actions view, shown alone over an anchor, leaves nothing of
\* AnchorUI in the balloon and the document as it was.
C25_EscapeInActions ==
    (/\ handled.name = "escActions"
     /\ ActionsShown(handled.before.balloon)
     /\ GetSelectedAnchorElement(handled.before.doc, selection)) =>
        /\ Hidden(balloon)
        /\ doc = handled.before.doc

\* C25 witness: Esc in the actions shown for the caret in an anchor with a
\* manual decorator: the balloon is empty and the anchor is as it was.
C25_Witness ==
    /\ handled.name = "escActions"
    /\ ActionsShown(handled.before.balloon)
    /\ IsCollapsed(selection)
    /\ anchorCommand.value = "a"
    /\ \E k \in 1..Len(doc[1]) : /\ doc[1][k].href = "a"
                                 /\ doc[1][k].decs # {}
    /\ doc = handled.before.doc
    /\ Hidden(balloon)

\* The last event was the submit of the form that Ctrl+M or the button had just
\* opened from an empty balloon, with a caret outside any anchor, a value in
\* the input and no switch touched.
CreatedFromHidden ==
    /\ handled.name = "submit"
    /\ handled.before.prev.name = "open"
    /\ Hidden(handled.before.prev.before.balloon)
    /\ IsCollapsed(LastCall.sel)
    /\ ~HasAnchorHref(LastCall.sel)
    /\ LastCall.href # ""

\* The block of the caret holds a new piece of text, the href as its data and
\* as its anchorHref, and the selection is the range on it.
NewAnchorSelected ==
    LET position == FirstPosition(LastCall.sel)
        before == LastCall.doc[position.blk]
        after == doc[position.blk]
    IN  /\ Len(after) = Len(before) + 1
        /\ after[position.off + 1].kind = "text"
        /\ after[position.off + 1].data = LastCall.href
        /\ after[position.off + 1].href = LastCall.href
        /\ \A k \in 1..Len(before) :
              before[k] = after[IF k <= position.off THEN k ELSE k + 1]
        /\ \A b \in DOMAIN doc : b # position.blk => doc[b] = LastCall.doc[b]
        /\ selection.ranges = <<[blk |-> position.blk, s |-> position.off,
                                 e |-> position.off + 1]>>

\* C26 as stated: open from an empty balloon with a caret that has no
\* anchorHref, then submit of a value: a new anchor with the value as text is
\* created and selected, and the actions are shown, alone and visible.
C26_CreateAnchor ==
    CreatedFromHidden =>
        /\ NewAnchorSelected
        /\ ActionsShown(balloon)
        /\ VisibleView(balloon) = "actionsView"

\* No item of the document has a manual decorator without anchorHref.
DecoratorsOnAnchorsOnly(d) ==
    \A p \in Places(d) :
        d[p.blk][p.k].decs # {} => d[p.blk][p.k].href # Undefined

C29_RestoreOnlyDecorators ==
    handled.name = "restore" =>
        /\ \A name \in ManualDecorators :
              anchorCommand.manualDecorators[name] =
                 GetDecoratorStateFromModel(selection, name)
        /\ anchorCommand.value = handled.before.anchorCommand.value
        /\ anchorCommand.isEnabled = handled.before.anchorCommand.isEnabled
        /\ doc = handled.before.doc
        /\ selection = handled.before.sel
        /\ balloon = handled.before.balloon
        /\ RestoreManualDecoratorStates(CurrentEditor) = CurrentEditor

\* C29 witness: anchorIsExternal was switched off and anchorIsDownloadable on
\* in the form over an anchor that has the first and not the second; the call
\* gives both the values of the model and leaves the form open.
C29_Witness ==
    /\ handled.name = "restore"
    /\ handled.before.anchorCommand.manualDecorators["anchorIsExternal"] = "false"
    /\ handled.before.anchorCommand.manualDecorators["anchorIsDownloadable"] = "true"
    /\ anchorCommand.manualDecorators["anchorIsExternal"] = "true"
    /\ anchorCommand.manualDecorators["anchorIsDownloadable"] = Undefined
    /\ FormShown(balloon)

\* The <a> element around an item of the anchor at the selection, when the
\* selection has anchorHref.
InSelectedAnchor(a) ==
    /\ HasAnchorHref(selection)
    /\ \E p \in Places(doc) :
          /\ InRange(p, FindAnchorRange(FirstPosition(selection),
                                        selection.attrs.href, doc))
          /\ InAnchorElement(doc[p.blk][p.k])
          /\ a = AnchorElementOf(doc, p.blk, p.k)

\* C30: no <a> element had the class while a conversion ran; after every render
\* cycle the highlighted elements are <a> elements of the view, those of the
\* anchor at the selection when the selection has anchorHref and none when it
\* has not.
C30_HighlightFollowsSelection ==
    /\ editingView.duringConversion = {}
    /\ editingView.highlightedAnchors \subseteq AnchorElements(doc)
    /\ \A a \in AnchorElements(doc) :
          a \in editingView.highlightedAnchors <=> InSelectedAnchor(a)

\* C30 witness: the caret was in anchor "a", highlighted, and has moved into
\* anchor "b" of the same block: "b" alone is highlighted.
C30_Witness ==
    /\ handled.name = "selection"
    /\ handled.before.ui.prevSelectedAnchor
    /\ IsCollapsed(selection)
    /\ selection.attrs.href = "b"
    /\ \E a \in AnchorElements(doc) : a.href = "a" /\ a.blk = selection.ranges[1].blk
    /\ Cardinality(editingView.highlightedAnchors) = 1
    /\ \A a \in editingView.highlightedAnchors : a.href = "b"

\* The position has a node before it / after it: it is not inside a text node
\* and not at the start / the end of its block.
HasNodeBefore(d, position) ==
    position.off >= 1 /\ ~InTextNode(d[position.blk], position.off)

HasNodeAfter(d, position) ==
    position.off < Len(d[position.blk]) /\ ~InTextNode(d[position.blk], position.off)

\* The conditions under which the fixer acts, on the document and the selection
\* the listener finds.
FixerConditions(d, sel) ==
    LET position == FirstPosition(sel)
    IN  /\ HasAnchorHref(sel)
        /\ HasNodeBefore(d, position)
        /\ d[position.blk][position.off].href # Undefined
        /\ HasNodeAfter(d, position) =>
              d[position.blk][position.off + 1].href = Undefined

\* C31: after an insertion the fixer removes selection attributes only when the
\* selection has anchorHref, there is a node before the selection's anchor, that
\* node has anchorHref, and the node after it (if any) has no anchorHref; then
\* the selection loses anchorHref and every decorator and keeps its other
\* attributes, and the document is not changed; in every other case the
\* selection's attributes and the document are left as they are.
C31_SelectionAttributesFixer ==
    handled.name = "insertContent" =>
        LET found == handled.before
        IN  /\ doc = found.doc
            /\ selection.ranges = found.sel.ranges
            /\ IF FixerConditions(found.doc, found.sel)
               THEN selection.attrs = [href |-> Undefined, decs |-> {},
                                       fmt |-> found.sel.attrs.fmt]
               ELSE selection.attrs = found.sel.attrs

\* C31 witness: bold text of an anchor with a decorator was inserted at the end
\* of a block; the selection came to stand after it with anchorHref, the
\* decorator and bold, and is left with bold only.
C31_Witness ==
    /\ handled.name = "insertContent"
    /\ FixerConditions(handled.before.doc, handled.before.sel)
    /\ handled.before.sel.attrs.decs # {}
    /\ handled.before.sel.attrs.fmt = {"bold"}
    /\ selection.attrs = [href |-> Undefined, decs |-> {}, fmt |-> {"bold"}]

\* The last event was a submit of the form over an existing anchor (a collapsed
\* selection with anchorHref) or over a non-collapsed selection in which the
\* schema allows anchorHref somewhere.
SubmittedOverContent ==
    /\ handled.name = "submit"
    /\ \/ IsCollapsed(LastCall.sel) /\ HasAnchorHref(LastCall.sel)
       \/ /\ ~IsCollapsed(LastCall.sel)
          /\ CheckAttributeInSelection(LastCall.doc, LastCall.sel.ranges)

\* Every decorator's value in the command is the state of its switch at the
\* submit: true when switched on, absent when switched off.
DecoratorsAsSubmitted ==
    \A name \in ManualDecorators :
        anchorCommand.manualDecorators[name] =
            IF LastCall.ids[name] THEN "true" ELSE Undefined

\* The first selected item of the call's selection was text.
FirstSelectedIsText ==
    LET r == LastCall.sel.ranges[1]
    IN  LastCall.doc[r.blk][r.s + 1].kind = "text"

\* C32 as stated: after a submit over an existing anchor or a permitted
\* non-collapsed selection, each decorator's value in the command equals the
\* state submitted for it (true for switched on, absent for switched off).
C32_Original == SubmittedOverContent => DecoratorsAsSubmitted

\* C32: the switch states are read and passed to execute before
\* restoreManualDecoratorStates runs; after a submit over an existing anchor, or
\* over a permitted non-collapsed selection whose first item is text, each
\* decorator's value in the command equals the state submitted for it, and
\* after a submit over a permitted selection whose first item is not text every
\* decorator's value is absent.
C32_SubmittedTogglesKept ==
    SubmittedOverContent =>
        IF IsCollapsed(LastCall.sel) \/ FirstSelectedIsText
        THEN DecoratorsAsSubmitted
        ELSE \A name \in ManualDecorators :
                anchorCommand.manualDecorators[name] = Undefined

\* C32 witness: in an anchor with anchorIsExternal and without
\* anchorIsDownloadable both switches were pressed and the form was submitted;
\* the command has anchorIsDownloadable and not anchorIsExternal.
C32_Witness ==
    /\ SubmittedOverContent
    /\ IsCollapsed(LastCall.sel)
    /\ LastCall.sel.attrs.decs = {"anchorIsExternal"}
    /\ LastCall.ids = [name \in ManualDecorators |-> name = "anchorIsDownloadable"]
    /\ anchorCommand.manualDecorators["anchorIsDownloadable"] = "true"
    /\ anchorCommand.manualDecorators["anchorIsExternal"] = Undefined

\* C33: the update listeners are registered if and only if the actions view or
\* the form view is in the balloon; a move of the selection that finds neither
\* of them there leaves the balloon as it was and does not ask it to take its
\* place again.
C33_ListeningWhileInPanel ==
    /\ anchorUI.updating <=> IsUIInPanel(CurrentEditor)
    /\ (handled.name = "selection" /\ handled.before.balloon.main = <<>>) =>
          /\ ~handled.before.ui.updating
          /\ balloon = handled.before.balloon
          /\ ~handled.updatePosition

\* C33 witness: the form was opened and closed again (the listeners were
\* registered and removed), then the selection moved into an anchor while the
\* balloon held no view of AnchorUI; it still holds none.
C33_Witness ==
    /\ handled.name = "selection"
    /\ handled.before.balloon.main = <<>>
    /\ handled.before.ui.prevSelectionParent # NoElement
    /\ GetSelectedAnchorElement(doc, selection)
    /\ ~anchorUI.updating
    /\ balloon.main = <<>>

\* The places of the items the most recent call of AnchorCommand.execute wrote
\* to: the items of the anchor at the selection (collapsed, with anchorHref),
\* the inserted item (collapsed, without anchorHref, value not empty), the
\* items of the ranges where the schema allows anchorHref (not collapsed).
WrittenPlaces ==
    LET sel == LastCall.sel
        before == LastCall.doc
    IN  IF IsCollapsed(sel)
        THEN IF HasAnchorHref(sel)
             THEN { p \in Places(doc) :
                      InRange(p, FindAnchorRange(FirstPosition(sel),
                                                 sel.attrs.href, before)) }
             ELSE IF LastCall.href # ""
                  THEN {[blk |-> sel.ranges[1].blk, k |-> sel.ranges[1].s + 1]}
                  ELSE {}
        ELSE LET valid == GetValidRanges(before, sel.ranges)
             IN  { p \in Places(doc) : \E i \in 1..Len(valid) : InRange(p, valid[i]) }

\* C34: after execute( value, toggles ), in every branch, a decorator that
\* toggles maps to false is on none of the items the call wrote to: the anchor
\* at the selection, the ranges where the schema allows anchorHref, the
\* inserted item, also when the selection had that decorator among its
\* attributes.
C34_FalsyDecoratorsAbsent ==
    AnchorCalled =>
        \A p \in WrittenPlaces :
            \A name \in DOMAIN LastCall.ids :
                ~LastCall.ids[name] => name \notin doc[p.blk][p.k].decs

\* C35: after a submit of the empty value over a non-collapsed selection or a
\* collapsed selection in an anchor, the content written to has anchorHref with
\* the empty string as its value, the anchor command's value is the empty
\* string, the unanchor command is enabled, and the actions view is shown.
C35_EmptyValueKeepsAttribute ==
    (/\ handled.name = "submit"
     /\ LastCall.href = ""
     /\ \/ ~IsCollapsed(LastCall.sel)
        \/ IsCollapsed(LastCall.sel) /\ HasAnchorHref(LastCall.sel)) =>
        /\ \A p \in WrittenPlaces : doc[p.blk][p.k].href = ""
        /\ anchorCommand.value = ""
        /\ unanchorCommand.isEnabled
        /\ VisibleView(balloon) = "actionsView"

=============================================================================
